---- MODULE Spec2Model ----
(***************************************************************************)
(* Model of package fnspath (fns.go, md5.go): the directory-ensure         *)
(* algorithm (MkdirAll, Ensure), the bounded-retry wrappers (Remove, MV),  *)
(* the copy operations (CopyFile, PathCopyDir), the helpers Rename,        *)
(* EnsureMany, AbsentMany and Clear, and the MD5 record with its pooled    *)
(* buffer (Do, Release), over a small filesystem.                          *)
(*                                                                         *)
(* A path string is a sequence of one-character strings, so that the       *)
(* index arithmetic of MkdirAll and the "/" concatenation of PathCopyDir   *)
(* are modelled as written.  The filesystem is a function from canonical   *)
(* paths (sequences of names, relative to a root that always exists) to    *)
(* nodes.  A permission mode is the set of its bits; mode 0 is {}.         *)
(***************************************************************************)
EXTENDS Integers, Sequences, FiniteSets, TLC

----------------------------------------------------------------------------
(* Bounds of the model *)

\* deepest canonical path the filesystem holds; deeper ones are ENAMETOOLONG
MaxDepth == 3

\* number of concurrent callers (of MkdirAll, and of MD5.Do / MD5.Release)
NProcs == 2

\* longest file content, in bytes
MaxLen == 2

\* fns.go:13
RemoveAttempts == 20

\* fns.go:14
MvAttempts == 20

Names == {"a", "b"}

Procs == 1..NProcs

----------------------------------------------------------------------------
(* Errors *)

\* an error value: the failing operation, the path it carries, the errno
Err(o, p, c) == [op |-> o, path |-> p, code |-> c]

Nil == Err("", <<>>, "nil")

\* a call that has not returned yet
Pending == Err("", <<>>, "pending")

\* os.IsNotExist
IsNotExist(err) == err.code = "ENOENT"

----------------------------------------------------------------------------
(* Path strings *)

IsPathSeparator(c) == c = "/"

RECURSIVE Comps(_)
\* the names of a path string, in order: what the kernel's lookup walks
\* ("." is the directory it stands in)
Comps(path) ==
  IF path = <<>> THEN <<>>
  ELSE IF IsPathSeparator(Head(path)) THEN Comps(Tail(path))
  ELSE IF Head(path) = "." /\ (Len(path) = 1 \/ IsPathSeparator(path[2])) THEN Comps(Tail(path))
  ELSE LET rest == Comps(Tail(path))
       IN  IF Len(path) > 1 /\ ~IsPathSeparator(path[2])
           THEN <<Head(path) \o Head(rest)>> \o Tail(rest)
           ELSE <<Head(path)>> \o rest

\* a path string that ends in a separator names a directory only
TrailingSep(path) == path # <<>> /\ IsPathSeparator(path[Len(path)])

RECURSIVE SeqsUpTo(_)
SeqsUpTo(n) ==
  IF n = 0 THEN {<<>>}
  ELSE LET s == SeqsUpTo(n - 1)
       IN  s \cup {Append(q, x) : q \in {r \in s : Len(r) = n - 1}, x \in Names}

\* the canonical paths of the filesystem (the root, <<>>, is not a key)
Paths == SeqsUpTo(MaxDepth) \ {<<>>}

Prefix(q, k) == SubSeq(q, 1, k)

Parent(q) == Prefix(q, Len(q) - 1)

IsPrefix(q, r) == Len(q) <= Len(r) /\ Prefix(r, Len(q)) = q

----------------------------------------------------------------------------
(* Filesystem *)

\* the permission bits told apart: "u" the owner's, "g" the write bit of group
\* and others, which the usual umask clears
Bits == {"u", "g"}

None == [kind |-> "none", mode |-> {}, data |-> <<>>]

Dir(m) == [kind |-> "dir", mode |-> m, data |-> <<>>]

File(m, d) == [kind |-> "file", mode |-> m, data |-> d]

\* the node at a canonical path; the root is a directory
Node(f, q) ==
  IF q = <<>> THEN Dir(Bits)
  ELSE IF q \in Paths THEN f[q] ELSE None

\* the filesystem with nothing in it
Empty == [q \in Paths |-> None]

\* every node lives in a directory
WellFormed(f) ==
  \A q \in Paths : f[q].kind # "none" => Node(f, Parent(q)).kind = "dir"

\* lookup of a canonical path: nil, or the errno the kernel gives
Lookup(f, q, trailing) ==
  LET bad == {k \in 0..(Len(q) - 1) : Node(f, Prefix(q, k)).kind # "dir"}
      k0  == CHOOSE k \in bad : \A k2 \in bad : k <= k2
  IN  IF Len(q) > MaxDepth THEN "ENAMETOOLONG"
      ELSE IF bad # {}
      THEN (IF Node(f, Prefix(q, k0)).kind = "file" THEN "ENOTDIR" ELSE "ENOENT")
      ELSE IF Node(f, q).kind = "none" THEN "ENOENT"
      ELSE IF Node(f, q).kind = "file" /\ trailing THEN "ENOTDIR"
      ELSE "nil"

\* os.Stat / os.Lstat (no symbolic links in the model): the error and the info
Stat(f, path) ==
  LET q == Comps(path)
      c == IF path = <<>> THEN "ENOENT" ELSE Lookup(f, q, TrailingSep(path))
  IN  [err  |-> IF c = "nil" THEN Nil ELSE Err("stat", path, c),
       info |-> IF c = "nil" THEN Node(f, q) ELSE None]

\* os.Mkdir(path, perm): the new directory gets perm minus the umask bits
Mkdir(f, path, perm, mask) ==
  LET q == Comps(path)
      c == IF path = <<>> THEN "ENOENT"
           ELSE IF q = <<>> THEN "EEXIST"
           ELSE IF Lookup(f, Parent(q), FALSE) # "nil" THEN Lookup(f, Parent(q), FALSE)
           ELSE IF Node(f, Parent(q)).kind # "dir" THEN "ENOTDIR"
           ELSE IF Len(q) > MaxDepth THEN "ENAMETOOLONG"
           ELSE IF Node(f, q).kind # "none" THEN "EEXIST"
           ELSE "nil"
  IN  [err |-> IF c = "nil" THEN Nil ELSE Err("mkdir", path, c),
       fs  |-> IF c = "nil" THEN [f EXCEPT ![q] = Dir(perm \ mask)] ELSE f]

\* os.Chmod(path, perm): sets the mode exactly, whatever the umask
Chmod(f, path, perm) ==
  LET q == Comps(path)
      c == IF path = <<>> THEN "ENOENT" ELSE Lookup(f, q, TrailingSep(path))
  IN  [err |-> IF c = "nil" THEN Nil ELSE Err("chmod", path, c),
       fs  |-> IF c = "nil" /\ q # <<>> THEN [f EXCEPT ![q].mode = perm] ELSE f]

\* what os.Stat says of a path: the kind of the node, or the errno
StatKind(f, path) ==
  IF Stat(f, path).err = Nil THEN Stat(f, path).info.kind ELSE Stat(f, path).err.code

\* fns.go:17-26
IsExists(f, path) ==
  LET st == Stat(f, path)
  IN  IF st.err # Nil
      THEN (IF IsNotExist(st.err) THEN [ok |-> FALSE, e |-> Nil]
            ELSE [ok |-> TRUE, e |-> st.err])
      ELSE [ok |-> TRUE, e |-> Nil]

----------------------------------------------------------------------------
(* State *)

VARIABLES
  fs,       \* the filesystem: canonical path -> node
  umask,    \* the process umask: the bits os.Mkdir and os.Create clear
  mkCall,   \* per caller: the directory-ensure call in progress
  mkStack,  \* per caller: the frames of the MkdirAll recursion, innermost last
  mkRet,    \* per caller: the value the call returned, Pending while it runs
  solo,     \* whether a single caller runs (no step of another interleaves)
  mkPre,    \* per caller: what os.Stat said of the call's path when it was made
  mkSnap,   \* per caller, when solo: the filesystem as it was at the call
  mkMade,   \* per caller: the directories the call's own os.Mkdir created
  mkOps,    \* per caller: the os.Mkdir / os.Chmod calls issued, in order
  rtCall,   \* the Remove or MV call in progress
  attempt,  \* the attempt counter of the retry loop
  e,        \* the named result e of Remove / MV
  rtRet,    \* the value the call returned, Pending while it runs
  rtSnap,   \* the filesystem as it was when the call was made
  rtTries,  \* how many times the call ran os.RemoveAll / os.Rename
  rtFails,  \* how many of those attempts failed
  rtFirst,  \* what the first attempt returned
  rtLast,   \* what the latest attempt returned
  cpCall,   \* the CopyFile or PathCopyDir call in progress
  cpStack,  \* the frames of the PathCopyDir recursion, innermost last
  cpRet,    \* the value the call returned, Pending while it runs
  stdout,   \* the errors printed by fmt.Println, in order
  cpSnap,   \* the filesystem as it was when the call was made
  cpFailed, \* the source paths at which an underlying operation failed
  cpListed, \* the source directories whose entries were all listed
  cpTried,  \* the source entries the walk went to copy, in order
  mdCall,   \* per caller: the MD5.Do or MD5.Release call in progress
  mdRec,    \* per caller: its MD5 record (Sum, Sz, B)
  mdRet,    \* per caller: the value the call returned, Pending while it runs
  mdLog,    \* per caller: the record at the call, and what the call did
  bufs,     \* the bytes each buffer holds
  pool,     \* the references the buffer pool holds, free to be handed out
  bmCall,   \* the Rename, EnsureMany, AbsentMany or Clear call in progress
  bmPc,     \* where that call stands
  bmRest,   \* the items its loop has still to go over
  bmErr,    \* its err variable
  bmRet,    \* the value the call returned, Pending while it runs
  bmSnap,   \* the filesystem as it was when the call was made
  bmLog     \* the items the call went over, each with the error it gave

mkVars == <<mkCall, mkStack, mkRet, mkPre, mkSnap, mkMade, mkOps>>

rtVars == <<rtCall, attempt, e, rtRet, rtSnap, rtTries, rtFails, rtFirst, rtLast>>

cpVars == <<cpCall, cpStack, cpRet, stdout, cpSnap, cpFailed, cpListed, cpTried>>

mdVars == <<mdCall, mdRec, mdRet, mdLog, bufs, pool>>

bmVars == <<bmCall, bmPc, bmRest, bmErr, bmRet, bmSnap, bmLog>>

vars == <<fs, umask, solo, mkVars, rtVars, cpVars, mdVars, bmVars>>

Idle == [fn |-> "idle", path |-> <<>>, perm |-> {}]

\* a frame of MkdirAll: its argument, where it stands, the error of os.Mkdir
Frame(path, pc) == [path |-> path, pc |-> pc, err |-> Nil]

Top(p) == mkStack[p][Len(mkStack[p])]

SetTop(p, fr) == [mkStack EXCEPT ![p] = [@ EXCEPT ![Len(@)] = fr]]

----------------------------------------------------------------------------
(* MkdirAll and Ensure, fns.go:28-89 *)

RECURSIVE SkipSep(_, _)
\* fns.go:40-43: skip trailing path separators (path[i-1] is the i-th char)
SkipSep(path, i) ==
  IF i > 0 /\ IsPathSeparator(path[i]) THEN SkipSep(path, i - 1) ELSE i

RECURSIVE ScanElem(_, _)
\* fns.go:45-48: scan backward over the last element
ScanElem(path, j) ==
  IF j > 0 /\ ~IsPathSeparator(path[j]) THEN ScanElem(path, j - 1) ELSE j

\* the j of fns.go:45-48
ElemStart(path) == ScanElem(path, SkipSep(path, Len(path)))

\* fns.go:50: whether MkdirAll recurses on a parent
HasParent(path) == ElemStart(path) > 1

\* fns.go:52: path[0:j-1]
ParentPath(path) == SubSeq(path, 1, ElemStart(path) - 1)

\* a MkdirAll frame returns err: a failing frame makes every caller above
\* it return the same error (fns.go:53-55); a frame returning nil lets its
\* caller go on to os.Mkdir (fns.go:59)
MkReturn(p, err) ==
  IF err # Nil \/ Len(mkStack[p]) = 1
  THEN /\ mkStack' = [mkStack EXCEPT ![p] = <<>>]
       /\ mkRet' = [mkRet EXCEPT ![p] = err]
  ELSE /\ mkStack' = [mkStack EXCEPT ![p] =
            [SubSeq(@, 1, Len(@) - 1) EXCEPT ![Len(@) - 1].pc = "mkdir"]]
       /\ UNCHANGED mkRet

\* a caller calls MkdirAll(path, perm)
CallMkdirAll(p, path, perm) ==
  /\ mkCall[p].fn = "idle"
  /\ mkCall' = [mkCall EXCEPT ![p] = [fn |-> "MkdirAll", path |-> path, perm |-> perm]]
  /\ mkStack' = [mkStack EXCEPT ![p] = <<Frame(path, "stat")>>]
  /\ mkRet' = [mkRet EXCEPT ![p] = Pending]
  /\ mkPre' = [mkPre EXCEPT ![p] = StatKind(fs, path)]
  /\ mkSnap' = [mkSnap EXCEPT ![p] = IF solo THEN fs ELSE Empty]
  /\ mkMade' = [mkMade EXCEPT ![p] = {}]
  /\ mkOps' = [mkOps EXCEPT ![p] = <<>>]
  /\ UNCHANGED <<fs, umask, solo, mdVars, bmVars, rtVars, cpVars>>

\* a caller calls Ensure(path, perm)
CallEnsure(p, path, perm) ==
  /\ mkCall[p].fn = "idle"
  /\ mkCall' = [mkCall EXCEPT ![p] = [fn |-> "Ensure", path |-> path, perm |-> perm]]
  /\ mkStack' = [mkStack EXCEPT ![p] = <<Frame(path, "isexists")>>]
  /\ mkRet' = [mkRet EXCEPT ![p] = Pending]
  /\ mkPre' = [mkPre EXCEPT ![p] = StatKind(fs, path)]
  /\ mkSnap' = [mkSnap EXCEPT ![p] = IF solo THEN fs ELSE Empty]
  /\ mkMade' = [mkMade EXCEPT ![p] = {}]
  /\ mkOps' = [mkOps EXCEPT ![p] = <<>>]
  /\ UNCHANGED <<fs, umask, solo, mdVars, bmVars, rtVars, cpVars>>

\* fns.go:79-89: Ensure returns the error of IsExists, nil when the path
\* exists, and otherwise whatever MkdirAll returns
Ensure(p) ==
  /\ mkStack[p] # <<>>
  /\ Top(p).pc = "isexists"
  /\ LET r == IsExists(fs, Top(p).path)
     IN  IF r.e # Nil
         THEN MkReturn(p, r.e)
         ELSE IF ~r.ok
         THEN /\ mkStack' = SetTop(p, Frame(Top(p).path, "stat"))
              /\ UNCHANGED mkRet
         ELSE MkReturn(p, Nil)
  /\ UNCHANGED <<fs, umask, solo, mdVars, bmVars, mkCall, mkPre, mkSnap, mkMade, mkOps, rtVars, cpVars>>

\* MkdirAllStat with a fast path that re-applies the mode to an existing directory
MkdirAllStat_Rechmod(p) ==
  /\ mkStack[p] # <<>>
  /\ Top(p).pc = "stat"
  /\ LET path == Top(p).path
         st   == Stat(fs, path)
     IN  IF st.err = Nil
         THEN (IF st.info.kind = "dir"
               THEN /\ fs' = Chmod(fs, path, mkCall[p].perm).fs
                    /\ MkReturn(p, Nil)
               ELSE /\ fs' = fs
                    /\ MkReturn(p, Err("mkdir", path, "ENOTDIR")))
         ELSE IF HasParent(path)
         THEN /\ mkStack' = [mkStack EXCEPT ![p] =
                   Append([@ EXCEPT ![Len(@)].pc = "parent"],
                          Frame(ParentPath(path), "stat"))]
              /\ UNCHANGED <<fs, mkRet>>
         ELSE /\ mkStack' = SetTop(p, [Top(p) EXCEPT !.pc = "mkdir"])
              /\ UNCHANGED <<fs, mkRet>>
  /\ UNCHANGED <<umask, solo, mdVars, bmVars, mkCall, mkPre, mkSnap, mkMade, mkOps, rtVars, cpVars>>

\* fns.go:30-56: the fast path, and the call on the parent
MkdirAllStat(p) ==
  /\ mkStack[p] # <<>>
  /\ Top(p).pc = "stat"
  /\ LET path == Top(p).path
         st   == Stat(fs, path)
     IN  IF st.err = Nil
         THEN (IF st.info.kind = "dir"
               THEN MkReturn(p, Nil)
               ELSE MkReturn(p, Err("mkdir", path, "ENOTDIR")))
         ELSE IF HasParent(path)
         THEN /\ mkStack' = [mkStack EXCEPT ![p] =
                   Append([@ EXCEPT ![Len(@)].pc = "parent"],
                          Frame(ParentPath(path), "stat"))]
              /\ UNCHANGED mkRet
         ELSE /\ mkStack' = SetTop(p, [Top(p) EXCEPT !.pc = "mkdir"])
              /\ UNCHANGED mkRet
  /\ UNCHANGED <<fs, umask, solo, mdVars, bmVars, mkCall, mkPre, mkSnap, mkMade, mkOps, rtVars, cpVars>>

\* fns.go:59-60: os.Mkdir(path, perm)
MkdirAllMkdir(p) ==
  /\ mkStack[p] # <<>>
  /\ Top(p).pc = "mkdir"
  /\ LET path == Top(p).path
         r    == Mkdir(fs, path, mkCall[p].perm, umask)
     IN  /\ fs' = r.fs
         /\ mkOps' = [mkOps EXCEPT ![p] = Append(@, <<"mkdir", Comps(path)>>)]
         /\ IF r.err = Nil
            THEN /\ mkStack' = SetTop(p, [Top(p) EXCEPT !.pc = "chmod"])
                 /\ mkMade' = [mkMade EXCEPT ![p] = @ \cup {Comps(path)}]
            ELSE /\ mkStack' = SetTop(p, [Top(p) EXCEPT !.pc = "lstat", !.err = r.err])
                 /\ UNCHANGED mkMade
  /\ UNCHANGED <<umask, solo, mdVars, bmVars, mkCall, mkRet, mkPre, mkSnap, rtVars, cpVars>>

\* MkdirAllLstat without the re-check: the error of os.Mkdir is returned
MkdirAllLstat_NoRecheck(p) ==
  /\ mkStack[p] # <<>>
  /\ Top(p).pc = "lstat"
  /\ MkReturn(p, Top(p).err)
  /\ UNCHANGED <<fs, umask, solo, mdVars, bmVars, mkCall, mkPre, mkSnap, mkMade, mkOps, rtVars, cpVars>>

\* MkdirAllLstat after which the directory another caller made is chmod-ed
MkdirAllLstat_ThenChmod(p) ==
  /\ mkStack[p] # <<>>
  /\ Top(p).pc = "lstat"
  /\ LET st == Stat(fs, Top(p).path)
     IN  IF st.err = Nil /\ st.info.kind = "dir"
         THEN /\ mkStack' = SetTop(p, [Top(p) EXCEPT !.pc = "chmod"])
              /\ UNCHANGED mkRet
         ELSE MkReturn(p, Top(p).err)
  /\ UNCHANGED <<fs, umask, solo, mdVars, bmVars, mkCall, mkPre, mkSnap, mkMade, mkOps, rtVars, cpVars>>

\* fns.go:61-69: os.Mkdir failed; an existing directory is success
MkdirAllLstat(p) ==
  /\ mkStack[p] # <<>>
  /\ Top(p).pc = "lstat"
  /\ LET st == Stat(fs, Top(p).path)
     IN  IF st.err = Nil /\ st.info.kind = "dir"
         THEN MkReturn(p, Nil)
         ELSE MkReturn(p, Top(p).err)
  /\ UNCHANGED <<fs, umask, solo, mdVars, bmVars, mkCall, mkPre, mkSnap, mkMade, mkOps, rtVars, cpVars>>

\* MkdirAllChmod without the os.Chmod: the mode is left as os.Mkdir made it
MkdirAllChmod_Skip(p) ==
  /\ mkStack[p] # <<>>
  /\ Top(p).pc = "chmod"
  /\ MkReturn(p, Nil)
  /\ UNCHANGED <<fs, umask, solo, mdVars, bmVars, mkCall, mkPre, mkSnap, mkMade, mkOps, rtVars, cpVars>>

\* fns.go:71-76: os.Chmod(path, perm) on the directory just created
MkdirAllChmod(p) ==
  /\ mkStack[p] # <<>>
  /\ Top(p).pc = "chmod"
  /\ LET r == Chmod(fs, Top(p).path, mkCall[p].perm)
     IN  /\ fs' = r.fs
         /\ mkOps' = [mkOps EXCEPT ![p] = Append(@, <<"chmod", Comps(Top(p).path)>>)]
         /\ MkReturn(p, r.err)
  /\ UNCHANGED <<umask, solo, mdVars, bmVars, mkCall, mkPre, mkSnap, mkMade, rtVars, cpVars>>

\* the caller has the result and may call again
MkdirAllDone(p) ==
  /\ mkCall[p].fn # "idle"
  /\ mkRet[p] # Pending
  /\ mkCall' = [mkCall EXCEPT ![p] = Idle]
  /\ mkRet' = [mkRet EXCEPT ![p] = Nil]
  /\ mkPre' = [mkPre EXCEPT ![p] = ""]
  /\ mkSnap' = [mkSnap EXCEPT ![p] = Empty]
  /\ mkMade' = [mkMade EXCEPT ![p] = {}]
  /\ mkOps' = [mkOps EXCEPT ![p] = <<>>]
  /\ UNCHANGED <<fs, umask, solo, mdVars, bmVars, mkStack, rtVars, cpVars>>

----------------------------------------------------------------------------
(* Remove and MV, fns.go:91-121 *)

\* the errors an attempt on an existing path may fail with although a later
\* attempt may succeed
Transient == {"EBUSY", "EIO"}

\* the filesystem without the subtree rooted at q
RemoveTree(f, q) == [r \in Paths |-> IF IsPrefix(q, r) THEN None ELSE f[r]]

\* the nodes strictly below q
Below(f, q) == {r \in Paths : IsPrefix(q, r) /\ r # q /\ f[r].kind # "none"}

\* os.RemoveAll(path), its possible outcomes: an absent path is success; a
\* path through a regular file fails (unlinkat gives ENOTDIR); an existing
\* path is removed with its subtree, or the attempt fails with a transient
\* error, having removed nothing or some subtree below the path
RemoveAll(f, path) ==
  LET q == Comps(path)
      c == Lookup(f, q, TrailingSep(path))
  IN  IF path = <<>> \/ c = "ENOENT" THEN {[err |-> Nil, fs |-> f]}
      ELSE IF c # "nil" \/ q = <<>> THEN {[err |-> Err("unlinkat", path, c), fs |-> f]}
      ELSE {[err |-> Nil, fs |-> RemoveTree(f, q)]}
           \cup {[err |-> Err("unlinkat", path, t), fs |-> g] :
                   t \in Transient,
                   g \in {f} \cup {RemoveTree(f, r) : r \in Below(f, q)}}

\* the filesystem with the subtree at qo moved to qn
MoveTree(f, qo, qn) ==
  [r \in Paths |->
     IF IsPrefix(qn, r) THEN Node(f, qo \o SubSeq(r, Len(qn) + 1, Len(r)))
     ELSE IF IsPrefix(qo, r) THEN None
     ELSE f[r]]

\* the errno of rename(2) as os.Rename calls it, "nil" when it can succeed
RenameCode(f, old, new) ==
  LET qo == Comps(old)
      qn == Comps(new)
      co == IF old = <<>> THEN "ENOENT" ELSE Lookup(f, qo, TrailingSep(old))
      cp == IF new = <<>> THEN "ENOENT"
            ELSE IF qn = <<>> THEN "EEXIST"
            ELSE Lookup(f, Parent(qn), FALSE)
  IN  IF Node(f, qn).kind = "dir" /\ cp = "nil" /\ co # "nil" THEN co
      ELSE IF Node(f, qn).kind = "dir" /\ cp = "nil" THEN "EEXIST"
      ELSE IF co # "nil" THEN co
      ELSE IF cp # "nil" THEN cp
      ELSE IF Node(f, Parent(qn)).kind # "dir" THEN "ENOTDIR"
      ELSE IF qo = <<>> THEN "EBUSY"
      ELSE IF qo = qn THEN "nil"
      ELSE IF IsPrefix(qo, qn) THEN "EINVAL"
      ELSE IF Node(f, qo).kind = "dir" /\ Node(f, qn).kind = "file" THEN "ENOTDIR"
      ELSE IF \E r \in {qo} \cup Below(f, qo) : Len(qn) + Len(r) - Len(qo) > MaxDepth
           THEN "ENAMETOOLONG"
      ELSE "nil"

\* os.Rename(oldpath, newpath), its possible outcomes: the error the
\* filesystem dictates; or the move; or, where the move is possible, a
\* transient failure that changes nothing
OsRename(f, old, new) ==
  LET c == RenameCode(f, old, new)
  IN  IF c # "nil" THEN {[err |-> Err("rename", old, c), fs |-> f]}
      ELSE {[err |-> Nil,
             fs  |-> IF Comps(old) = Comps(new) THEN f
                     ELSE MoveTree(f, Comps(old), Comps(new))]}
           \cup {[err |-> Err("rename", old, t), fs |-> f] : t \in Transient}

NoCall == [fn |-> "idle", path |-> <<>>, newpath |-> <<>>]

\* fns.go:92 and fns.go:108: a call enters its loop with the full budget
CallRetry(fn, path, newpath, budget) ==
  /\ rtCall.fn = "idle"
  /\ rtCall' = [fn |-> fn, path |-> path, newpath |-> newpath]
  /\ attempt' = budget
  /\ e' = Nil
  /\ rtRet' = Pending
  /\ rtSnap' = fs
  /\ rtTries' = 0
  /\ rtFails' = 0
  /\ rtFirst' = Nil
  /\ rtLast' = Nil
  /\ UNCHANGED <<umask, solo, mdVars, bmVars, fs, mkVars, cpVars>>

CallRemove(path) == CallRetry("Remove", path, <<>>, RemoveAttempts)

CallMV(oldpath, newpath) == CallRetry("MV", oldpath, newpath, MvAttempts)

\* RetryTurn keeping the first error seen instead of the latest
RetryTurn_KeepFirst(out) ==
  /\ fs' = out.fs
  /\ e' = IF e = Nil THEN out.err ELSE e
  /\ rtTries' = rtTries + 1
  /\ rtLast' = out.err
  /\ rtFirst' = IF rtTries = 0 THEN out.err ELSE rtFirst
  /\ IF out.err # Nil
     THEN /\ attempt' = attempt - 1
          /\ rtFails' = rtFails + 1
          /\ rtRet' = IF attempt - 1 > 0 THEN Pending ELSE e'
     ELSE /\ rtRet' = Nil
          /\ UNCHANGED <<attempt, rtFails>>
  /\ UNCHANGED <<umask, solo, mdVars, bmVars, rtCall, rtSnap, mkVars, cpVars>>

\* one turn of the loop of fns.go:94-104 (fns.go:110-120), given what the
\* attempt did: a failure costs one attempt, and the loop ends, returning e,
\* when none is left; a success returns nil at once
RetryTurn(out) ==
  /\ fs' = out.fs
  /\ e' = out.err
  /\ rtTries' = rtTries + 1
  /\ rtLast' = out.err
  /\ rtFirst' = IF rtTries = 0 THEN out.err ELSE rtFirst
  /\ IF out.err # Nil
     THEN /\ attempt' = attempt - 1
          /\ rtFails' = rtFails + 1
          /\ rtRet' = IF attempt - 1 > 0 THEN Pending ELSE out.err
     ELSE /\ rtRet' = Nil
          /\ UNCHANGED <<attempt, rtFails>>
  /\ UNCHANGED <<umask, solo, mdVars, bmVars, rtCall, rtSnap, mkVars, cpVars>>

\* Remove with the test of fns.go:96 dropped: a failed attempt returns nil
Remove_NilOnFailure ==
  /\ rtCall.fn = "Remove"
  /\ rtRet = Pending
  /\ attempt > 0
  /\ \E out \in RemoveAll(fs, rtCall.path) : RetryTurn([out EXCEPT !.err = Nil])

\* fns.go:91-105
Remove ==
  /\ rtCall.fn = "Remove"
  /\ rtRet = Pending
  /\ attempt > 0
  /\ \E out \in RemoveAll(fs, rtCall.path) : RetryTurn(out)

\* MV creating the parent of newpath before it renames, as Rename does
MV_EnsureParent ==
  /\ rtCall.fn = "MV"
  /\ rtRet = Pending
  /\ attempt > 0
  /\ LET d == Parent(Comps(rtCall.newpath))
         g == IF d \in Paths /\ Lookup(fs, d, FALSE) = "ENOENT"
                 /\ Lookup(fs, Parent(d), FALSE) = "nil"
              THEN [fs EXCEPT ![d] = Dir(Bits)] ELSE fs
     IN  \E out \in OsRename(g, rtCall.path, rtCall.newpath) : RetryTurn(out)

\* fns.go:107-121
MV ==
  /\ rtCall.fn = "MV"
  /\ rtRet = Pending
  /\ attempt > 0
  /\ \E out \in OsRename(fs, rtCall.path, rtCall.newpath) : RetryTurn(out)

\* the caller has the result and may call again
RetryDone ==
  /\ rtCall.fn # "idle"
  /\ rtRet # Pending
  /\ rtCall' = NoCall
  /\ attempt' = 0
  /\ e' = Nil
  /\ rtRet' = Nil
  /\ rtSnap' = Empty
  /\ rtTries' = 0
  /\ rtFails' = 0
  /\ rtFirst' = Nil
  /\ rtLast' = Nil
  /\ UNCHANGED <<umask, solo, mdVars, bmVars, fs, mkVars, cpVars>>

----------------------------------------------------------------------------
(* CopyFile, fns.go:257-289 *)

Min(a, b) == IF a < b THEN a ELSE b

\* where an operation of a CopyFile call is made to fail by its environment,
\* and for the streaming of the bytes how many were written before it failed
Faults ==
  {[step |-> st, n |-> 0] : st \in {"none", "open", "create", "stat", "chmod"}}
    \cup {[step |-> "copy", n |-> k] : k \in 0..MaxLen}

\* what a call gives: the error returned, the filesystem it leaves, and the
\* first underlying operation that failed ("none" when all succeeded)
Outcome(err, f, failed) == [err |-> err, fs |-> f, failed |-> failed]

\* os.Open(path) for reading: the errno, "nil" when the path can be opened
Open(f, path, fault) ==
  IF fault THEN "EACCES"
  ELSE IF path = <<>> THEN "ENOENT"
  ELSE Lookup(f, Comps(path), TrailingSep(path))

\* os.Create(path): creates the file with mode 0666 less the umask, or
\* truncates the file that is there, keeping its mode
Create(f, path, mask, fault) ==
  LET q == Comps(path)
      c == IF fault THEN "EACCES"
           ELSE IF path = <<>> THEN "ENOENT"
           ELSE IF q = <<>> THEN "EISDIR"
           ELSE IF Lookup(f, Parent(q), FALSE) # "nil" THEN Lookup(f, Parent(q), FALSE)
           ELSE IF Node(f, Parent(q)).kind # "dir" THEN "ENOTDIR"
           ELSE IF Len(q) > MaxDepth THEN "ENAMETOOLONG"
           ELSE IF Node(f, q).kind = "dir" \/ TrailingSep(path) THEN "EISDIR"
           ELSE "nil"
  IN  [err |-> IF c = "nil" THEN Nil ELSE Err("open", path, c),
       fs  |-> IF c # "nil" THEN f
               ELSE IF f[q].kind = "file" THEN [f EXCEPT ![q].data = <<>>]
               ELSE [f EXCEPT ![q] = File(Bits \ mask, <<>>)]]

\* fns.go:272-286: the mode is set after the bytes were copied, to the
\* custom mode or to the mode of the source
CopyFileMode(f, source, dest, mode, fault) ==
  IF mode # {}
  THEN LET ch == Chmod(f, dest, mode)
       IN  IF fault.step = "chmod" THEN Outcome(Err("chmod", dest, "EPERM"), f, "chmod")
           ELSE IF ch.err # Nil THEN Outcome(ch.err, f, "chmod")
           ELSE Outcome(Nil, ch.fs, "none")
  ELSE LET st == Stat(f, source)
           ch == Chmod(f, dest, st.info.mode)
       IN  IF fault.step = "stat" THEN Outcome(Err("stat", source, "EIO"), f, "stat")
           ELSE IF st.err # Nil THEN Outcome(st.err, f, "stat")
           ELSE IF fault.step = "chmod" THEN Outcome(Err("chmod", dest, "EPERM"), f, "chmod")
           ELSE IF ch.err # Nil THEN Outcome(ch.err, f, "chmod")
           ELSE Outcome(Nil, ch.fs, "none")

\* CopyFile that leaves the destination with the mode os.Create gave it
CopyFile_NoChmod(f, source, dest, mode, mask, fault) ==
  LET o  == Open(f, source, fault.step = "open")
      cr == Create(f, dest, mask, fault.step = "create")
      sn == Node(cr.fs, Comps(source))
  IN  IF o # "nil" THEN Outcome(Err("open", source, o), f, "open")
      ELSE IF cr.err # Nil THEN Outcome(cr.err, f, "create")
      ELSE IF sn.kind = "dir" THEN Outcome(Nil, cr.fs, "copy")
      ELSE IF fault.step = "copy"
      THEN Outcome(Nil, [cr.fs EXCEPT ![Comps(dest)].data =
                           SubSeq(sn.data, 1, Min(fault.n, Len(sn.data)))], "copy")
      ELSE Outcome(Nil, [cr.fs EXCEPT ![Comps(dest)].data = sn.data], "none")

\* fns.go:257-289.  The source is opened, the destination is created or
\* truncated, the bytes are streamed; a directory opens but cannot be read
\* (EISDIR), and a failing stream leaves a prefix of the bytes.  When
\* io.Copy fails the if of fns.go:272 is skipped and fns.go:288 returns nil.
CopyFile(f, source, dest, mode, mask, fault) ==
  LET o  == Open(f, source, fault.step = "open")
      cr == Create(f, dest, mask, fault.step = "create")
      sn == Node(cr.fs, Comps(source))
  IN  IF o # "nil" THEN Outcome(Err("open", source, o), f, "open")
      ELSE IF cr.err # Nil THEN Outcome(cr.err, f, "create")
      ELSE IF sn.kind = "dir" THEN Outcome(Nil, cr.fs, "copy")
      ELSE IF fault.step = "copy"
      THEN Outcome(Nil, [cr.fs EXCEPT ![Comps(dest)].data =
                           SubSeq(sn.data, 1, Min(fault.n, Len(sn.data)))], "copy")
      ELSE CopyFileMode([cr.fs EXCEPT ![Comps(dest)].data = sn.data],
                        source, dest, mode, fault)

CpIdleCall == [fn |-> "idle", source |-> <<>>, dest |-> <<>>, mode |-> {}]

\* a caller calls CopyFile(source, dest, mode)
CallCopyFile(source, dest, mode) ==
  /\ cpCall.fn = "idle"
  /\ cpCall' = [fn |-> "CopyFile", source |-> source, dest |-> dest, mode |-> mode]
  /\ cpRet' = Pending
  /\ cpSnap' = fs
  /\ UNCHANGED <<fs, umask, solo, mdVars, bmVars, mkVars, rtVars, cpStack, stdout, cpFailed, cpListed, cpTried>>

\* the call runs to its return
RunCopyFile ==
  /\ cpCall.fn = "CopyFile"
  /\ cpRet = Pending
  /\ \E fault \in Faults :
       LET r == CopyFile(fs, cpCall.source, cpCall.dest, cpCall.mode, umask, fault)
       IN  /\ fs' = r.fs
           /\ cpRet' = r.err
           /\ cpFailed' = IF r.failed # "none" THEN {Comps(cpCall.source)} ELSE {}
  /\ UNCHANGED <<umask, solo, mdVars, bmVars, mkVars, rtVars, cpCall, cpStack, stdout, cpSnap, cpListed, cpTried>>

----------------------------------------------------------------------------
(* PathCopyDir, fns.go:291-330 *)

\* os.MkdirAll(path, perm): every missing directory of the path is created
\* with perm less the umask; no chmod follows
OsMkdirAll(f, path, perm, mask) ==
  LET q == Comps(path)
      c == IF path = <<>> THEN "ENOENT"
           ELSE IF \E k \in 1..Len(q) : Node(f, Prefix(q, k)).kind = "file" THEN "ENOTDIR"
           ELSE IF Len(q) > MaxDepth THEN "ENAMETOOLONG"
           ELSE "nil"
  IN  [err |-> IF c = "nil" THEN Nil ELSE Err("mkdir", path, c),
       fs  |-> IF c \in {"ENOENT", "ENOTDIR"} THEN f
               ELSE [r \in Paths |-> IF IsPrefix(r, q) /\ f[r].kind = "none"
                                     THEN Dir(perm \ mask) ELSE f[r]]]

\* the names in a directory
Children(f, q) == {x \in Names : Node(f, Append(q, x)).kind # "none"}

\* the orders a set can be listed in
Orderings(S) ==
  {o \in [1..Cardinality(S) -> S] : \A i, j \in 1..Cardinality(S) : o[i] = o[j] => i = j}

\* (*File).Readdir(-1) on a directory, in one of its orders: the entries,
\* each with its name and whether it is a directory
Readdir(f, q) ==
  {[i \in 1..Len(o) |-> [name |-> o[i], isdir |-> Node(f, Append(q, o[i])).kind = "dir"]] :
     o \in Orderings(Children(f, q))}

\* a frame of PathCopyDir: its arguments, the entries still to copy, and err
CpFrame(source, dest) ==
  [source |-> source, dest |-> dest, pc |-> "enter", objects |-> <<>>, err |-> Nil]

CpTop == cpStack[Len(cpStack)]

\* fns.go:310, fns.go:312
Join(dir, name) == dir \o <<"/", name>>

\* a frame returns err (fns.go:329, or fns.go:295 and fns.go:302): to the
\* caller of PathCopyDir, or to the frame that called it at fns.go:316,
\* which keeps it as its err and prints it when it is not nil
CpReturn(err) ==
  IF Len(cpStack) = 1
  THEN /\ cpStack' = <<>>
       /\ cpRet' = err
       /\ UNCHANGED stdout
  ELSE /\ cpStack' = [SubSeq(cpStack, 1, Len(cpStack) - 1) EXCEPT ![Len(cpStack) - 1].err = err]
       /\ stdout' = IF err # Nil THEN Append(stdout, err) ELSE stdout
       /\ UNCHANGED cpRet

\* a caller calls PathCopyDir(source, dest)
CallPathCopyDir(source, dest) ==
  /\ cpCall.fn = "idle"
  /\ cpCall' = [fn |-> "PathCopyDir", source |-> source, dest |-> dest, mode |-> {}]
  /\ cpStack' = <<CpFrame(source, dest)>>
  /\ cpRet' = Pending
  /\ cpSnap' = fs
  /\ UNCHANGED <<fs, umask, solo, mdVars, bmVars, mkVars, rtVars, stdout, cpFailed, cpListed, cpTried>>

\* fns.go:293-307, with the stat or the mkdir failing: the frame returns
PathCopyDirFail ==
  /\ cpStack # <<>>
  /\ CpTop.pc = "enter"
  /\ LET st == Stat(fs, CpTop.source)
         mk == OsMkdirAll(fs, CpTop.dest, st.info.mode, umask)
     IN  \/ /\ st.err # Nil
            /\ fs' = fs
            /\ CpReturn(st.err)
         \/ /\ fs' = fs
            /\ CpReturn(Err("stat", CpTop.source, "EIO"))
         \/ /\ st.err = Nil
            /\ mk.err # Nil
            /\ fs' = mk.fs
            /\ CpReturn(mk.err)
         \/ /\ st.err = Nil
            /\ fs' = fs
            /\ CpReturn(Err("mkdir", CpTop.dest, "EACCES"))
  /\ cpFailed' = cpFailed \cup {Comps(CpTop.source)}
  /\ UNCHANGED <<umask, solo, mdVars, bmVars, mkVars, rtVars, cpCall, cpSnap, cpListed, cpTried>>

\* fns.go:293-307: the destination directory is made with the mode of the
\* source, then the source is opened and listed.  The error of os.Open is
\* dropped (Readdir on the nil file then gives no entry and an error), and
\* after a failing Readdir the loop still runs over the entries it gave.
PathCopyDirEnter ==
  /\ cpStack # <<>>
  /\ CpTop.pc = "enter"
  /\ LET st == Stat(fs, CpTop.source)
         mk == OsMkdirAll(fs, CpTop.dest, st.info.mode, umask)
         q  == Comps(CpTop.source)
         go(objs, err) ==
           cpStack' = [cpStack EXCEPT ![Len(cpStack)] =
                         [@ EXCEPT !.pc = "walk", !.objects = objs, !.err = err]]
     IN  /\ st.err = Nil
         /\ mk.err = Nil
         /\ fs' = mk.fs
         /\ \/ /\ go(<<>>, Err("readdir", CpTop.source, "EINVAL"))
               /\ cpFailed' = cpFailed \cup {q}
               /\ UNCHANGED cpListed
            \/ /\ st.info.kind # "dir"
               /\ go(<<>>, Err("readdir", CpTop.source, "ENOTDIR"))
               /\ cpFailed' = cpFailed \cup {q}
               /\ UNCHANGED cpListed
            \/ /\ st.info.kind = "dir"
               /\ \E objs \in Readdir(fs, q), k \in 0..MaxLen :
                    /\ k < Len(objs)
                    /\ go(SubSeq(objs, 1, k), Err("readdir", CpTop.source, "EIO"))
               /\ cpFailed' = cpFailed \cup {q}
               /\ UNCHANGED cpListed
            \/ /\ st.info.kind = "dir"
               /\ \E objs \in Readdir(fs, q) : go(objs, Nil)
               /\ cpListed' = cpListed \cup {q}
               /\ UNCHANGED cpFailed
  /\ UNCHANGED <<umask, solo, mdVars, bmVars, mkVars, rtVars, cpCall, cpRet, stdout, cpSnap, cpTried>>

\* PathCopyDirEntry that ends the walk at the first entry that fails
PathCopyDirEntry_Abort ==
  /\ cpStack # <<>>
  /\ CpTop.pc = "walk"
  /\ CpTop.objects # <<>>
  /\ LET obj == Head(CpTop.objects)
         sp  == Join(CpTop.source, obj.name)
         dp  == Join(CpTop.dest, obj.name)
     IN  /\ cpTried' = Append(cpTried, Comps(sp))
         /\ IF obj.isdir
            THEN /\ cpStack' = Append([cpStack EXCEPT ![Len(cpStack)].objects = Tail(@)],
                                      CpFrame(sp, dp))
                 /\ UNCHANGED <<fs, stdout, cpFailed>>
            ELSE \E fault \in Faults :
                   LET r == CopyFile(fs, sp, dp, {}, umask, fault)
                   IN  /\ fs' = r.fs
                       /\ cpStack' = [cpStack EXCEPT ![Len(cpStack)] =
                            [@ EXCEPT !.objects = IF r.err # Nil THEN <<>> ELSE Tail(@),
                                      !.err = r.err]]
                       /\ stdout' = IF r.err # Nil THEN Append(stdout, r.err) ELSE stdout
                       /\ cpFailed' = IF r.failed # "none"
                                      THEN cpFailed \cup {Comps(sp)} ELSE cpFailed
  /\ UNCHANGED <<umask, solo, mdVars, bmVars, mkVars, rtVars, cpCall, cpRet, cpSnap, cpListed>>

\* fns.go:309-327, one turn of the loop: a subdirectory is copied by a
\* nested PathCopyDir, a file by CopyFile with mode 0; the error is kept in
\* err and printed, and the loop goes on to the next entry
PathCopyDirEntry ==
  /\ cpStack # <<>>
  /\ CpTop.pc = "walk"
  /\ CpTop.objects # <<>>
  /\ LET obj == Head(CpTop.objects)
         sp  == Join(CpTop.source, obj.name)
         dp  == Join(CpTop.dest, obj.name)
     IN  /\ cpTried' = Append(cpTried, Comps(sp))
         /\ IF obj.isdir
            THEN /\ cpStack' = Append([cpStack EXCEPT ![Len(cpStack)].objects = Tail(@)],
                                      CpFrame(sp, dp))
                 /\ UNCHANGED <<fs, stdout, cpFailed>>
            ELSE \E fault \in Faults :
                   LET r == CopyFile(fs, sp, dp, {}, umask, fault)
                   IN  /\ fs' = r.fs
                       /\ cpStack' = [cpStack EXCEPT ![Len(cpStack)] =
                            [@ EXCEPT !.objects = Tail(@), !.err = r.err]]
                       /\ stdout' = IF r.err # Nil THEN Append(stdout, r.err) ELSE stdout
                       /\ cpFailed' = IF r.failed # "none"
                                      THEN cpFailed \cup {Comps(sp)} ELSE cpFailed
  /\ UNCHANGED <<umask, solo, mdVars, bmVars, mkVars, rtVars, cpCall, cpRet, cpSnap, cpListed>>

\* fns.go:329: the loop is over, the frame returns its err
PathCopyDirReturn ==
  /\ cpStack # <<>>
  /\ CpTop.pc = "walk"
  /\ CpTop.objects = <<>>
  /\ CpReturn(CpTop.err)
  /\ UNCHANGED <<fs, umask, solo, mdVars, bmVars, mkVars, rtVars, cpCall, cpSnap, cpFailed, cpListed, cpTried>>

----------------------------------------------------------------------------
(* MD5, md5.go *)

\* the buffers there are, as references; NilBuf is the nil *bufpool.Buf
Bufs == 1..NProcs

NilBuf == 0

\* md5.go:14: the zero value of the Sum field
ZeroSum == [zero |-> TRUE, of |-> <<>>]

\* md5.Sum(data): a digest that tells the contents apart and is never zero
Md5Sum(data) == [zero |-> FALSE, of |-> data]

\* md5.go:12-17: the zero value of an MD5 record (Latency, a measured time,
\* is left out)
NewMD5 == [Sum |-> ZeroSum, Sz |-> 0, B |-> NilBuf]

\* fi.Size(): the length of a file; for a directory a number the system
\* picks
Sizes(node) == IF node.kind = "file" THEN {Len(node.data)} ELSE 0..MaxLen

\* ioutil.ReadFile(path) on a path os.Stat found: the bytes of a file, or an
\* error: a directory cannot be read, and a read may fail
ReadFile(f, path) ==
  LET n == Node(f, Comps(path))
  IN  IF n.kind = "file"
      THEN {[err |-> Nil, data |-> n.data], [err |-> Err("read", path, "EIO"), data |-> <<>>]}
      ELSE {[err |-> Err("read", path, "EISDIR"), data |-> <<>>]}

\* the references the records hold
Held == {mdRec[p].B : p \in Procs}

\* bufpool.NewBuf(): a reference taken out of the pool, or a buffer that is
\* neither in the pool nor held by a record
NewBuf ==
  {[b |-> x, pool |-> pool \ {x}] : x \in pool}
    \cup {[b |-> x, pool |-> pool] : x \in Bufs \ (pool \cup Held)}

\* (*Buf).Reset followed by (*Buf).Write(data): the buffer holds data
ResetWrite(b, data) == [bufs EXCEPT ![b] = <<>> \o data]

\* the panic of a nil pointer dereference: the process is gone
Panic == Err("panic", <<>>, "nil pointer dereference")

Panicked == \E p \in Procs : mdRet[p] = Panic

MdNoCall == [fn |-> "idle", path |-> <<>>, pc |-> ""]

\* what is kept of a call: the record as it was at the call, whether the
\* read failed, the references taken from and handed to the pool
MdEntry(rec) == [prev |-> rec, readErr |-> FALSE, got |-> {}, put |-> <<>>]

\* a caller calls Do(path) on its record
CallDo(p, path) ==
  /\ ~Panicked
  /\ mdCall[p].fn = "idle"
  /\ mdCall' = [mdCall EXCEPT ![p] = [fn |-> "Do", path |-> path, pc |-> "stat"]]
  /\ mdRet' = [mdRet EXCEPT ![p] = Pending]
  /\ mdLog' = [mdLog EXCEPT ![p] = MdEntry(mdRec[p])]
  /\ UNCHANGED <<fs, umask, solo, mkVars, rtVars, cpVars, mdRec, bufs, pool, bmVars>>

\* md5.go:29-34: the size query; its error is returned, else Sz is set
DoStat(p) ==
  /\ ~Panicked
  /\ mdCall[p].fn = "Do"
  /\ mdCall[p].pc = "stat"
  /\ LET st == Stat(fs, mdCall[p].path)
     IN  IF st.err # Nil
         THEN /\ mdRet' = [mdRet EXCEPT ![p] = st.err]
              /\ mdCall' = [mdCall EXCEPT ![p].pc = "done"]
              /\ UNCHANGED mdRec
         ELSE /\ \E sz \in Sizes(st.info) : mdRec' = [mdRec EXCEPT ![p].Sz = sz]
              /\ mdCall' = [mdCall EXCEPT ![p].pc = "read"]
              /\ UNCHANGED mdRet
  /\ UNCHANGED <<fs, umask, solo, mkVars, rtVars, cpVars, mdLog, bufs, pool, bmVars>>

\* md5.go:36-53: the file is read; when the read fails Do returns nil at
\* md5.go:38, the record as it is; else the digest is set, the buffer of the
\* record, or one from the pool when it has none, is reset and written, and
\* Do returns nil.  A nil reference out of the pool panics at b.Reset().
DoRead(p) ==
  /\ ~Panicked
  /\ mdCall[p].fn = "Do"
  /\ mdCall[p].pc = "read"
  /\ mdCall' = [mdCall EXCEPT ![p].pc = "done"]
  /\ \E rd \in ReadFile(fs, mdCall[p].path) :
       IF rd.err # Nil
       THEN /\ mdRet' = [mdRet EXCEPT ![p] = Nil]
            /\ mdLog' = [mdLog EXCEPT ![p].readErr = TRUE]
            /\ UNCHANGED <<mdRec, bufs, pool>>
       ELSE IF mdRec[p].B # NilBuf
       THEN /\ mdRec' = [mdRec EXCEPT ![p].Sum = Md5Sum(rd.data)]
            /\ bufs' = ResetWrite(mdRec[p].B, rd.data)
            /\ mdRet' = [mdRet EXCEPT ![p] = Nil]
            /\ UNCHANGED <<mdLog, pool>>
       ELSE \E nb \in NewBuf :
              /\ pool' = nb.pool
              /\ mdLog' = [mdLog EXCEPT ![p].got = @ \cup {nb.b}]
              /\ IF nb.b = NilBuf
                 THEN /\ mdRec' = [mdRec EXCEPT ![p].Sum = Md5Sum(rd.data)]
                      /\ mdRet' = [mdRet EXCEPT ![p] = Panic]
                      /\ UNCHANGED bufs
                 ELSE /\ mdRec' = [mdRec EXCEPT ![p].Sum = Md5Sum(rd.data), ![p].B = nb.b]
                      /\ bufs' = ResetWrite(nb.b, rd.data)
                      /\ mdRet' = [mdRet EXCEPT ![p] = Nil]
  /\ UNCHANGED <<fs, umask, solo, mkVars, rtVars, cpVars, bmVars>>

\* a caller calls Release() on its record
CallRelease(p) ==
  /\ ~Panicked
  /\ mdCall[p].fn = "idle"
  /\ mdCall' = [mdCall EXCEPT ![p] = [fn |-> "Release", path |-> <<>>, pc |-> "put"]]
  /\ mdRet' = [mdRet EXCEPT ![p] = Pending]
  /\ mdLog' = [mdLog EXCEPT ![p] = MdEntry(mdRec[p])]
  /\ UNCHANGED <<fs, umask, solo, mkVars, rtVars, cpVars, mdRec, bufs, pool, bmVars>>

\* md5.go:20: m5.B.Release(), with no test of m5.B.  A buffer goes back to
\* the pool.  On the nil reference the call is made all the same, and what
\* it does is the pool's affair: it panics, or the nil reference is put in
\* the pool, or nothing happens.
ReleasePut(p) ==
  /\ ~Panicked
  /\ mdCall[p].fn = "Release"
  /\ mdCall[p].pc = "put"
  /\ IF mdRec[p].B # NilBuf
     THEN /\ pool' = pool \cup {mdRec[p].B}
          /\ mdLog' = [mdLog EXCEPT ![p].put = Append(@, mdRec[p].B)]
          /\ mdCall' = [mdCall EXCEPT ![p].pc = "clear"]
          /\ UNCHANGED mdRet
     ELSE \/ /\ mdRet' = [mdRet EXCEPT ![p] = Panic]
             /\ mdCall' = [mdCall EXCEPT ![p].pc = "done"]
             /\ UNCHANGED <<pool, mdLog>>
          \/ /\ pool' = pool \cup {NilBuf}
             /\ mdLog' = [mdLog EXCEPT ![p].put = Append(@, NilBuf)]
             /\ mdCall' = [mdCall EXCEPT ![p].pc = "clear"]
             /\ UNCHANGED mdRet
          \/ /\ mdCall' = [mdCall EXCEPT ![p].pc = "clear"]
             /\ UNCHANGED <<pool, mdLog, mdRet>>
  /\ UNCHANGED <<fs, umask, solo, mkVars, rtVars, cpVars, mdRec, bufs, bmVars>>

\* md5.go:21: m5.B = nil, and Release returns
ReleaseClear(p) ==
  /\ ~Panicked
  /\ mdCall[p].fn = "Release"
  /\ mdCall[p].pc = "clear"
  /\ mdRec' = [mdRec EXCEPT ![p].B = NilBuf]
  /\ mdCall' = [mdCall EXCEPT ![p].pc = "done"]
  /\ mdRet' = [mdRet EXCEPT ![p] = Nil]
  /\ UNCHANGED <<fs, umask, solo, mkVars, rtVars, cpVars, mdLog, bufs, pool, bmVars>>

\* the caller has the result and may call again
MdDone(p) ==
  /\ ~Panicked
  /\ mdCall[p].fn # "idle"
  /\ mdRet[p] # Pending
  /\ mdCall' = [mdCall EXCEPT ![p] = MdNoCall]
  /\ mdRet' = [mdRet EXCEPT ![p] = Nil]
  /\ mdLog' = [mdLog EXCEPT ![p] = MdEntry(NewMD5)]
  /\ UNCHANGED <<fs, umask, solo, mkVars, rtVars, cpVars, mdRec, bufs, pool, bmVars>>

\* no MD5 call is in progress: the records are new and the pool is empty
MdIdle ==
  /\ mdCall = [p \in Procs |-> MdNoCall]
  /\ mdRec = [p \in Procs |-> NewMD5]
  /\ mdRet = [p \in Procs |-> Nil]
  /\ mdLog = [p \in Procs |-> MdEntry(NewMD5)]
  /\ bufs = [b \in Bufs |-> <<>>]
  /\ pool = {}

----------------------------------------------------------------------------
(* Rename, EnsureMany, AbsentMany, Clear: fns.go:167-208, fns.go:249-255 *)

BmNoCall == [fn |-> "idle", args |-> <<>>, mode |-> {}]

\* no such call is in progress
BmIdle ==
  /\ bmCall = BmNoCall
  /\ bmPc = ""
  /\ bmRest = <<>>
  /\ bmErr = Nil
  /\ bmRet = Nil
  /\ bmSnap = Empty
  /\ bmLog = <<>>

RECURSIVE LastSep(_, _)
\* filepath.Dir: the index of the last separator of the path, 0 without one
LastSep(path, i) ==
  IF i > 0 /\ ~IsPathSeparator(path[i]) THEN LastSep(path, i - 1) ELSE i

RECURSIVE Squeeze(_)
\* filepath.Clean: a run of separators becomes one
Squeeze(path) ==
  IF Len(path) < 2 THEN path
  ELSE IF IsPathSeparator(path[1]) /\ IsPathSeparator(path[2]) THEN Squeeze(Tail(path))
  ELSE <<Head(path)>> \o Squeeze(Tail(path))

\* filepath.Clean, for a path without "." and ".." elements: no separator is
\* repeated, none ends the path unless the path is the root, and the empty
\* path is "."
Clean(path) ==
  LET sq  == Squeeze(path)
      cut == IF Len(sq) > 1 /\ IsPathSeparator(sq[Len(sq)])
             THEN SubSeq(sq, 1, Len(sq) - 1) ELSE sq
  IN  IF cut = <<>> THEN <<".">> ELSE cut

\* filepath.Dir(path): all but the last element of the path, cleaned
FilepathDir(path) == Clean(SubSeq(path, 1, LastSep(path, Len(path))))

\* an item a call went over, with the error it gave
Did(item, err) == [item |-> item, err |-> err]

\* a caller calls Rename(oldpath, newpath, mode); fns.go:250: Rename calls
\* Ensure on the directory of newpath, as caller 1 of the directory-ensure
\* steps
CallRename(oldpath, newpath, mode) ==
  /\ bmCall.fn = "idle"
  /\ mkCall[1].fn = "idle"
  /\ bmCall' = [fn |-> "Rename", args |-> <<oldpath, newpath>>, mode |-> mode]
  /\ bmPc' = "ensure"
  /\ bmRet' = Pending
  /\ bmSnap' = fs
  /\ mkCall' = [mkCall EXCEPT ![1] =
                  [fn |-> "Ensure", path |-> FilepathDir(newpath), perm |-> mode]]
  /\ mkStack' = [mkStack EXCEPT ![1] = <<Frame(FilepathDir(newpath), "isexists")>>]
  /\ mkRet' = [mkRet EXCEPT ![1] = Pending]
  /\ mkPre' = [mkPre EXCEPT ![1] = StatKind(fs, FilepathDir(newpath))]
  /\ mkSnap' = [mkSnap EXCEPT ![1] = fs]
  /\ mkMade' = [mkMade EXCEPT ![1] = {}]
  /\ mkOps' = [mkOps EXCEPT ![1] = <<>>]
  /\ UNCHANGED <<fs, umask, solo, rtVars, cpVars, mdVars, bmRest, bmErr, bmLog>>

\* fns.go:250-254, Ensure having returned: when Ensure failed Rename returns
\* nil (fns.go:251); else it returns what the one os.Rename returns
Rename ==
  /\ bmCall.fn = "Rename"
  /\ bmPc = "ensure"
  /\ mkRet[1] # Pending
  /\ bmPc' = "done"
  /\ IF mkRet[1] # Nil
     THEN /\ bmRet' = Nil
          /\ UNCHANGED <<fs, bmLog>>
     ELSE \E out \in OsRename(fs, bmCall.args[1], bmCall.args[2]) :
            /\ fs' = out.fs
            /\ bmRet' = out.err
            /\ bmLog' = Append(bmLog, Did(bmCall.args[1], out.err))
  /\ UNCHANGED <<umask, solo, mkVars, rtVars, cpVars, mdVars, bmCall, bmRest, bmErr, bmSnap>>

\* os.MkdirAll(path, perm) failing for want of permission or of room, some
\* of the missing ancestors of the path made and the path itself not
OsMkdirAllFault(f, path, perm, mask) ==
  LET q == Comps(path)
  IN  {[err |-> Err("mkdir", path, "EACCES"),
        fs  |-> [r \in Paths |-> IF IsPrefix(r, Prefix(q, k)) /\ f[r].kind = "none"
                                 THEN Dir(perm \ mask) ELSE f[r]]] :
         k \in {k \in 0..(Len(q) - 1) : OsMkdirAll(f, path, perm, mask).err = Nil}}

\* a caller calls EnsureMany(paths), paths a list of (path, mode) pairs
CallEnsureMany(paths) ==
  /\ bmCall.fn = "idle"
  /\ bmCall' = [fn |-> "EnsureMany", args |-> paths, mode |-> {}]
  /\ bmPc' = "loop"
  /\ bmRest' = paths
  /\ bmRet' = Pending
  /\ bmSnap' = fs
  /\ UNCHANGED <<fs, umask, solo, mkVars, rtVars, cpVars, mdVars, bmErr, bmLog>>

\* what the body of the loop of fns.go:169-175 gives for the pair r: the
\* error e and the filesystem
EnsurePair(f, r, mask) ==
  LET st == Stat(f, r[1])
  IN  IF IsNotExist(st.err)
      THEN {[err |-> OsMkdirAll(f, r[1], r[2], mask).err,
             fs  |-> OsMkdirAll(f, r[1], r[2], mask).fs]}
             \cup OsMkdirAllFault(f, r[1], r[2], mask)
      ELSE {[err |-> st.err, fs |-> f]}

\* EnsureMany that goes on to the next pair after a failure
EnsureMany_GoOn ==
  /\ bmCall.fn = "EnsureMany"
  /\ bmPc = "loop"
  /\ IF bmRest = <<>>
     THEN /\ bmRet' = bmErr
          /\ bmPc' = "done"
          /\ UNCHANGED <<fs, bmRest, bmErr, bmLog>>
     ELSE \E out \in EnsurePair(fs, Head(bmRest), umask) :
            /\ fs' = out.fs
            /\ bmLog' = Append(bmLog, Did(Head(bmRest)[1], out.err))
            /\ bmErr' = IF out.err # Nil THEN out.err ELSE bmErr
            /\ bmRest' = Tail(bmRest)
            /\ UNCHANGED <<bmRet, bmPc>>
  /\ UNCHANGED <<umask, solo, mkVars, rtVars, cpVars, mdVars, bmCall, bmSnap>>

\* fns.go:167-179, one turn of the loop, or the return after it: a pair
\* whose path os.Stat does not find is made by os.MkdirAll; the error of
\* os.MkdirAll, or of os.Stat when it is not that of an absent path, is
\* returned at once
EnsureMany ==
  /\ bmCall.fn = "EnsureMany"
  /\ bmPc = "loop"
  /\ IF bmRest = <<>>
     THEN /\ bmRet' = Nil
          /\ bmPc' = "done"
          /\ UNCHANGED <<fs, bmRest, bmLog>>
     ELSE \E out \in EnsurePair(fs, Head(bmRest), umask) :
            /\ fs' = out.fs
            /\ bmLog' = Append(bmLog, Did(Head(bmRest)[1], out.err))
            /\ IF out.err # Nil
               THEN /\ bmRet' = out.err
                    /\ bmPc' = "done"
                    /\ UNCHANGED bmRest
               ELSE /\ bmRest' = Tail(bmRest)
                    /\ UNCHANGED <<bmRet, bmPc>>
  /\ UNCHANGED <<umask, solo, mkVars, rtVars, cpVars, mdVars, bmCall, bmErr, bmSnap>>

\* Remove(path) is called from a loop: the call enters the retry loop
StartRemove(path) ==
  /\ rtCall.fn = "idle"
  /\ rtCall' = [fn |-> "Remove", path |-> path, newpath |-> <<>>]
  /\ attempt' = RemoveAttempts
  /\ e' = Nil
  /\ rtRet' = Pending
  /\ rtSnap' = fs
  /\ rtTries' = 0
  /\ rtFails' = 0
  /\ rtFirst' = Nil
  /\ rtLast' = Nil

\* the loop has the result of Remove
EndRemove ==
  /\ rtCall' = NoCall
  /\ attempt' = 0
  /\ e' = Nil
  /\ rtRet' = Nil
  /\ rtSnap' = Empty
  /\ rtTries' = 0
  /\ rtFails' = 0
  /\ rtFirst' = Nil
  /\ rtLast' = Nil

\* a caller calls AbsentMany(paths)
CallAbsentMany(paths) ==
  /\ bmCall.fn = "idle"
  /\ bmCall' = [fn |-> "AbsentMany", args |-> paths, mode |-> {}]
  /\ bmPc' = "loop"
  /\ bmRest' = paths
  /\ bmErr' = Nil
  /\ bmRet' = Pending
  /\ bmSnap' = fs
  /\ UNCHANGED <<fs, umask, solo, mkVars, rtVars, cpVars, mdVars, bmLog>>

\* fns.go:182-183 and fns.go:188: Remove is called on the next path; after
\* the last one err is returned
AbsentManyTurn ==
  /\ bmCall.fn = "AbsentMany"
  /\ bmPc = "loop"
  /\ IF bmRest = <<>>
     THEN /\ bmRet' = bmErr
          /\ bmPc' = "done"
          /\ UNCHANGED rtVars
     ELSE /\ StartRemove(Head(bmRest))
          /\ bmPc' = "remove"
          /\ UNCHANGED bmRet
  /\ UNCHANGED <<fs, umask, solo, mkVars, cpVars, mdVars, bmCall, bmRest, bmErr, bmSnap, bmLog>>

\* AbsentMany that stops at the first path whose removal fails
AbsentMany_StopAtFailure ==
  /\ bmCall.fn = "AbsentMany"
  /\ bmPc = "remove"
  /\ rtRet # Pending
  /\ EndRemove
  /\ bmErr' = IF rtRet # Nil THEN rtRet ELSE bmErr
  /\ bmLog' = Append(bmLog, Did(Head(bmRest), rtRet))
  /\ bmRest' = IF rtRet # Nil THEN <<>> ELSE Tail(bmRest)
  /\ bmPc' = "loop"
  /\ UNCHANGED <<fs, umask, solo, mkVars, cpVars, mdVars, bmCall, bmRet, bmSnap>>

\* fns.go:183-185: Remove has returned; its error, when it is one, is kept
\* in err, and the loop goes on
AbsentMany ==
  /\ bmCall.fn = "AbsentMany"
  /\ bmPc = "remove"
  /\ rtRet # Pending
  /\ EndRemove
  /\ bmErr' = IF rtRet # Nil THEN rtRet ELSE bmErr
  /\ bmLog' = Append(bmLog, Did(Head(bmRest), rtRet))
  /\ bmRest' = Tail(bmRest)
  /\ bmPc' = "loop"
  /\ UNCHANGED <<fs, umask, solo, mkVars, cpVars, mdVars, bmCall, bmRet, bmSnap>>

\* the names in their order
SortedNames == <<"a", "b">>

\* ioutil.ReadDir(path) on a directory: the names of its entries, sorted
ReadDir(f, q) ==
  LET In(x) == x \in Children(f, q)
  IN  SelectSeq(SortedNames, In)

\* filepath.Join(dir, name)
FilepathJoin(dir, name) == IF dir = <<>> THEN <<name>> ELSE Clean(dir \o <<"/", name>>)

\* a caller calls Clear(path)
CallClear(path) ==
  /\ bmCall.fn = "idle"
  /\ bmCall' = [fn |-> "Clear", args |-> <<path>>, mode |-> {}]
  /\ bmPc' = "enter"
  /\ bmErr' = Nil
  /\ bmRet' = Pending
  /\ bmSnap' = fs
  /\ UNCHANGED <<fs, umask, solo, mkVars, rtVars, cpVars, mdVars, bmRest, bmLog>>

\* fns.go:192-201: the error of IsExists is returned; an absent path is
\* success; the entries of the path are listed, and the error of
\* ioutil.ReadDir (the path is no directory, or the listing fails) is
\* returned
ClearEnter ==
  /\ bmCall.fn = "Clear"
  /\ bmPc = "enter"
  /\ LET path == bmCall.args[1]
         ex   == IsExists(fs, path)
         ret(err) == bmRet' = err /\ bmPc' = "done" /\ UNCHANGED bmRest
     IN  IF ex.e # Nil THEN ret(ex.e)
         ELSE IF ~ex.ok THEN ret(Nil)
         ELSE IF Node(fs, Comps(path)).kind # "dir" THEN ret(Err("readdir", path, "ENOTDIR"))
         ELSE \/ ret(Err("readdir", path, "EIO"))
              \/ /\ bmRest' = ReadDir(fs, Comps(path))
                 /\ bmPc' = "loop"
                 /\ UNCHANGED bmRet
  /\ UNCHANGED <<fs, umask, solo, mkVars, rtVars, cpVars, mdVars, bmCall, bmErr, bmSnap, bmLog>>

\* fns.go:203-204 and fns.go:207: Remove is called on the next entry; after
\* the last one err is returned
ClearTurn ==
  /\ bmCall.fn = "Clear"
  /\ bmPc = "loop"
  /\ IF bmRest = <<>>
     THEN /\ bmRet' = bmErr
          /\ bmPc' = "done"
          /\ UNCHANGED rtVars
     ELSE /\ StartRemove(FilepathJoin(bmCall.args[1], Head(bmRest)))
          /\ bmPc' = "remove"
          /\ UNCHANGED bmRet
  /\ UNCHANGED <<fs, umask, solo, mkVars, cpVars, mdVars, bmCall, bmRest, bmErr, bmSnap, bmLog>>

\* fns.go:204: Remove has returned; err is what it returned, nil or not
Clear ==
  /\ bmCall.fn = "Clear"
  /\ bmPc = "remove"
  /\ rtRet # Pending
  /\ EndRemove
  /\ bmErr' = rtRet
  /\ bmLog' = Append(bmLog, Did(rtCall.path, rtRet))
  /\ bmRest' = Tail(bmRest)
  /\ bmPc' = "loop"
  /\ UNCHANGED <<fs, umask, solo, mkVars, cpVars, mdVars, bmCall, bmRet, bmSnap>>

----------------------------------------------------------------------------
(* Inputs *)

\* the path strings handed to the operations
pA == <<"a">>

pB == <<"b">>

pAB == <<"a", "/", "b">>

pABslash == <<"a", "/", "b", "/">>

pRootA == <<"/", "a">>

pABA == <<"a", "/", "b", "/", "a">>

MkPaths == {pA, pAB, pABslash, pRootA, pABA}

\* the paths the concurrent callers race on
RacePaths == {pA, pAB}

Perms == {{"u"}, {"u", "g"}}

Umasks == {{}, {"g"}}

\* a filesystem given by its nodes, everything else absent
Tree(nodes) ==
  [q \in Paths |-> IF \E n \in nodes : n[1] = q
                   THEN (CHOOSE n \in nodes : n[1] = q)[2]
                   ELSE None]

MkTrees ==
  { Empty,
    Tree({<<(<<"a">>), File({"u"}, <<"x">>)>>}),
    Tree({<<(<<"a">>), Dir({"u"})>>}),
    Tree({<<(<<"a">>), Dir({"u", "g"})>>, <<(<<"a", "b">>), File({"u"}, <<>>)>>}) }

RaceTrees ==
  { Empty,
    Tree({<<(<<"a">>), File({"u"}, <<"x">>)>>}) }

----------------------------------------------------------------------------
(* Specifications of the directory-ensure calls *)

\* no directory-ensure call is in progress
MkIdle ==
  /\ mkCall = [p \in Procs |-> Idle]
  /\ mkStack = [p \in Procs |-> <<>>]
  /\ mkRet = [p \in Procs |-> Nil]
  /\ mkPre = [p \in Procs |-> ""]
  /\ mkSnap = [p \in Procs |-> Empty]
  /\ mkMade = [p \in Procs |-> {}]
  /\ mkOps = [p \in Procs |-> <<>>]

\* no Remove or MV call is in progress
RtIdle ==
  /\ rtCall = NoCall
  /\ attempt = 0
  /\ e = Nil
  /\ rtRet = Nil
  /\ rtSnap = Empty
  /\ rtTries = 0
  /\ rtFails = 0
  /\ rtFirst = Nil
  /\ rtLast = Nil

\* no CopyFile or PathCopyDir call is in progress
CpIdle ==
  /\ cpCall = CpIdleCall
  /\ cpStack = <<>>
  /\ cpRet = Nil
  /\ stdout = <<>>
  /\ cpSnap = Empty
  /\ cpFailed = {}
  /\ cpListed = {}
  /\ cpTried = <<>>

MkInitWith(trees, masks, alone) ==
  /\ solo = alone
  /\ fs \in trees
  /\ umask \in masks
  /\ MkIdle
  /\ RtIdle
  /\ CpIdle
  /\ MdIdle
  /\ BmIdle

\* the steps of a caller of MkdirAll
MkStep(p, paths) ==
  \/ \E path \in paths, perm \in Perms : CallMkdirAll(p, path, perm)
  \/ MkdirAllStat(p)
  \/ MkdirAllMkdir(p)
  \/ MkdirAllLstat(p)
  \/ MkdirAllChmod(p)
  \/ MkdirAllDone(p)

\* the steps of a caller that are Ensure's own
EnsureStep(p, paths) ==
  \/ \E path \in paths, perm \in Perms : CallEnsure(p, path, perm)
  \/ Ensure(p)

\* one caller at a time
MkSeqNext == MkStep(1, MkPaths) \/ EnsureStep(1, MkPaths)

SpecMkdirSeq == MkInitWith(MkTrees, Umasks, TRUE) /\ [][MkSeqNext]_vars

\* several callers of MkdirAll, their steps interleaved
MkNext == \E p \in Procs : MkStep(p, RacePaths)

SpecMkdir == MkInitWith(RaceTrees, {{"g"}}, FALSE) /\ [][MkNext]_vars

----------------------------------------------------------------------------
(* Specification of the retrying calls *)

pBA == <<"b", "/", "a">>

pBAB == <<"b", "/", "a", "/", "b">>

RtPaths == {pA, pB, pAB, pBA, pABA}

RtTrees ==
  { Empty,
    Tree({<<(<<"a">>), File({"u"}, <<"x">>)>>}),
    Tree({<<(<<"a">>), Dir({"u", "g"})>>, <<(<<"b">>), Dir({"u"})>>,
          <<(<<"a", "a">>), File({"u"}, <<"x">>)>>}),
    Tree({<<(<<"a">>), Dir({"u", "g"})>>,
          <<(<<"a", "a">>), File({"u"}, <<"x">>)>>,
          <<(<<"a", "b">>), Dir({"u"})>>,
          <<(<<"a", "b", "a">>), File({"u", "g"}, <<"y">>)>>}) }

RtInit ==
  /\ solo = TRUE
  /\ fs \in RtTrees
  /\ umask = {}
  /\ MkIdle
  /\ RtIdle
  /\ CpIdle
  /\ MdIdle
  /\ BmIdle

RtNext ==
  \/ \E path \in RtPaths : CallRemove(path)
  \/ \E oldpath \in RtPaths, newpath \in RtPaths \cup {pBAB} : CallMV(oldpath, newpath)
  \/ Remove
  \/ MV
  \/ RetryDone

SpecRetry == RtInit /\ [][RtNext]_vars

----------------------------------------------------------------------------
(* Specification of the copy calls *)

\* a source tree a (a file, and a directory with a file in it) and no b; the
\* same with b a directory of another mode; a source a that has only the
\* subdirectory, and a b that has a file of its own; a b whose entries clash
\* in kind with those of a
CpTrees ==
  { Tree({<<(<<"a">>), Dir({"u", "g"})>>,
          <<(<<"a", "a">>), File({"u"}, <<"x", "y">>)>>,
          <<(<<"a", "b">>), Dir({"u", "g"})>>,
          <<(<<"a", "b", "a">>), File({"u", "g"}, <<"y">>)>>}),
    Tree({<<(<<"a">>), Dir({"u", "g"})>>,
          <<(<<"a", "b">>), Dir({"u", "g"})>>,
          <<(<<"a", "b", "a">>), File({"u"}, <<"y">>)>>,
          <<(<<"b">>), Dir({"u"})>>,
          <<(<<"b", "a">>), File({"u"}, <<"x">>)>>}),
    Tree({<<(<<"a">>), Dir({"u"})>>,
          <<(<<"a", "a">>), File({"u", "g"}, <<"x">>)>>,
          <<(<<"a", "b">>), Dir({"u"})>>,
          <<(<<"b">>), Dir({"u", "g"})>>,
          <<(<<"b", "a">>), Dir({"u"})>>,
          <<(<<"b", "b">>), File({"u"}, <<>>)>>}) }

\* the (source, dest) pairs of the PathCopyDir calls
CpDirPairs == {<<pA, pB>>, <<pAB, pB>>, <<pA, pA>>, <<pB, pA>>}

\* the (source, dest) pairs of the CopyFile calls
CpFilePairs == {<<Join(pA, "a"), pB>>, <<pABA, pBA>>, <<pA, pB>>, <<pB, pAB>>}

CpInit ==
  /\ solo = TRUE
  /\ fs \in CpTrees
  /\ umask \in Umasks
  /\ MkIdle
  /\ RtIdle
  /\ CpIdle
  /\ MdIdle
  /\ BmIdle

CpNext ==
  \/ \E pair \in CpFilePairs, mode \in {{}, {"u"}} : CallCopyFile(pair[1], pair[2], mode)
  \/ RunCopyFile
  \/ \E pair \in CpDirPairs : CallPathCopyDir(pair[1], pair[2])
  \/ PathCopyDirFail
  \/ PathCopyDirEnter
  \/ PathCopyDirEntry
  \/ PathCopyDirReturn

\* one call, from each of the filesystems and with each of the arguments
SpecCopy == CpInit /\ [][CpNext]_vars

----------------------------------------------------------------------------
(* Specification of the MD5 calls *)

\* a directory a with a file of two bytes and a file of one byte in it; b is
\* absent
MdTree ==
  Tree({<<(<<"a">>), Dir({"u", "g"})>>,
        <<(<<"a", "a">>), File({"u"}, <<"x", "y">>)>>,
        <<(<<"a", "b">>), File({"u"}, <<"y">>)>>})

MdPaths == {Join(pA, "a"), pAB, pA, pB}

MdInit ==
  /\ solo = FALSE
  /\ fs = MdTree
  /\ umask = {}
  /\ MkIdle
  /\ RtIdle
  /\ CpIdle
  /\ MdIdle
  /\ BmIdle

\* the steps of a caller with its record
MdStep(p, paths) ==
  \/ \E path \in paths : CallDo(p, path)
  \/ DoStat(p)
  \/ DoRead(p)
  \/ CallRelease(p)
  \/ ReleasePut(p)
  \/ ReleaseClear(p)
  \/ MdDone(p)

\* one caller, one record
MdOneNext == MdStep(1, MdPaths)

SpecMD5One == MdInit /\ [][MdOneNext]_vars

\* the files the interleaved callers compute on
MdRacePaths == {Join(pA, "a"), pAB}

\* several callers, each with its own record, their steps interleaved
MdNext == \E p \in Procs : MdStep(p, MdRacePaths)

SpecMD5 == MdInit /\ [][MdNext]_vars

----------------------------------------------------------------------------
(* Specification of Rename, EnsureMany, AbsentMany and Clear *)

\* the empty filesystem; a a regular file; a directory a with two files and
\* a directory b; a with a file and a directory that is not empty
BmTrees ==
  { Empty,
    Tree({<<(<<"a">>), File({"u"}, <<"x">>)>>}),
    Tree({<<(<<"a">>), Dir({"u", "g"})>>,
          <<(<<"a", "a">>), File({"u"}, <<"x">>)>>,
          <<(<<"a", "b">>), File({"u"}, <<"y">>)>>,
          <<(<<"b">>), Dir({"u"})>>}),
    Tree({<<(<<"a">>), Dir({"u", "g"})>>,
          <<(<<"a", "a">>), File({"u"}, <<"x">>)>>,
          <<(<<"a", "b">>), Dir({"u"})>>,
          <<(<<"a", "b", "a">>), File({"u", "g"}, <<"y">>)>>}) }

\* the (oldpath, newpath) pairs of the Rename calls
RenamePairs ==
  { <<Join(pA, "a"), pBA>>, <<pA, pB>>, <<pA, pBAB>>, <<Join(pA, "a"), pABA>>,
    <<pA, pABA>>, <<pB, Join(pA, "a")>> }

\* the lists of (path, mode) pairs of the EnsureMany calls
EnsureLists ==
  { <<(<<pB, {"u"}>>), (<<pAB, {"u", "g"}>>)>>,
    <<(<<pAB, {"u", "g"}>>), (<<pBA, {"u"}>>)>>,
    <<(<<pBA, {"u", "g"}>>), (<<pABA, {"u"}>>), (<<pB, {"u"}>>)>>,
    <<(<<pB, {"u"}>>), (<<pABA, {"u", "g"}>>), (<<pBA, {"u"}>>)>>,
    <<(<<(<<>>), {"u"}>>), (<<pB, {"u"}>>)>>,
    <<>> }

\* the lists of paths of the AbsentMany calls
AbsentLists ==
  { <<Join(pA, "a"), pAB>>, <<pA, pB>>, <<pABA, pA, pB>>, <<pB, pAB, pAB>>, <<>> }

ClearPaths == {pA, pB, pAB, pABA}

BmInit ==
  /\ solo = TRUE
  /\ fs \in BmTrees
  /\ umask \in Umasks
  /\ MkIdle
  /\ RtIdle
  /\ CpIdle
  /\ MdIdle
  /\ BmIdle

BmNext ==
  \/ \E pair \in RenamePairs, mode \in Perms : CallRename(pair[1], pair[2], mode)
  \/ Ensure(1)
  \/ MkdirAllStat(1)
  \/ MkdirAllMkdir(1)
  \/ MkdirAllChmod(1)
  \/ Rename
  \/ \E paths \in EnsureLists : CallEnsureMany(paths)
  \/ EnsureMany
  \/ \E paths \in AbsentLists : CallAbsentMany(paths)
  \/ AbsentManyTurn
  \/ AbsentMany
  \/ \E path \in ClearPaths : CallClear(path)
  \/ ClearEnter
  \/ ClearTurn
  \/ Clear
  \/ Remove

\* one call, from each of the filesystems and with each of the arguments.
\* With a single caller the os.Mkdir of MkdirAll does not fail, so the step
\* of fns.go:61-69 is not among the steps of Rename.
SpecBatch == BmInit /\ [][BmNext]_vars

----------------------------------------------------------------------------
(* Properties of the directory-ensure calls *)

\* the filesystem stays a tree
TypeFs == WellFormed(fs)

\* the call of caller p has returned and the caller still holds the result
MkReturned(p) == mkCall[p].fn # "idle" /\ mkRet[p] # Pending

\* the canonical path of the call of caller p
MkTarget(p) == Comps(mkCall[p].path)

\* C4: MkdirAll, and Ensure, called on a path that exists as a regular file
\* returns the not-a-directory error carrying that path and leaves the
\* filesystem as it was.
C4_FileIsNotADirectory ==
  \A p \in Procs :
    (solo /\ MkReturned(p) /\ mkPre[p] = "file")
      => /\ mkRet[p] = Err("mkdir", mkCall[p].path, "ENOTDIR")
         /\ fs = mkSnap[p]

\* C5: a call of MkdirAll or Ensure on a path that is a directory returns
\* nil and, from the call to the return, leaves the filesystem as it was:
\* it issues no mkdir and no chmod, whatever the mode it was given.
C5_ExistingDirNoOp ==
  \A p \in Procs :
    (solo /\ mkCall[p].fn # "idle" /\ mkPre[p] = "dir")
      => /\ fs = mkSnap[p]
         /\ mkOps[p] = <<>>
         /\ mkRet[p] \in {Pending, Nil}

\* a call on an existing directory returned, with a mode other than the
\* directory's
C5_Witness ==
  \E p \in Procs :
    /\ solo /\ MkReturned(p) /\ mkPre[p] = "dir"
    /\ mkRet[p] = Nil
    /\ Node(fs, MkTarget(p)).mode # mkCall[p].perm

\* C6: when MkdirAll or Ensure returns nil for a path that did not exist,
\* the path and every ancestor are directories; those that were missing
\* were created by this call and have exactly the requested mode, and
\* those that existed are as they were.
C6_CreatesPathAndAncestors ==
  \A p \in Procs :
    (solo /\ MkReturned(p) /\ mkRet[p] = Nil /\ mkPre[p] = "ENOENT")
      => \A k \in 1..Len(MkTarget(p)) :
           LET r == Prefix(MkTarget(p), k)
           IN  /\ fs[r].kind = "dir"
               /\ IF mkSnap[p][r].kind = "none"
                  THEN r \in mkMade[p] /\ fs[r] = Dir(mkCall[p].perm)
                  ELSE r \notin mkMade[p] /\ fs[r] = mkSnap[p][r]

\* a call created two missing levels under an existing directory of another
\* mode, with a umask that clears a bit of the requested mode
C6_Witness ==
  \E p \in Procs :
    /\ solo /\ MkReturned(p) /\ mkRet[p] = Nil /\ mkPre[p] = "ENOENT"
    /\ Cardinality(mkMade[p]) >= 2
    /\ mkCall[p].perm \cap umask # {}
    /\ \E k \in 1..Len(MkTarget(p)) :
         /\ mkSnap[p][Prefix(MkTarget(p), k)].kind = "dir"
         /\ mkSnap[p][Prefix(MkTarget(p), k)].mode # mkCall[p].perm

\* C7: with callers racing, every MkdirAll call on a path that was absent
\* when it was made returns nil, and the path is a directory.
C7_RaceIsSuccess ==
  \A p \in Procs :
    (MkReturned(p) /\ mkPre[p] = "ENOENT")
      => mkRet[p] = Nil /\ StatKind(fs, mkCall[p].path) = "dir"

\* a caller whose os.Mkdir of the path failed, the path having been created
\* by another caller meanwhile, returned nil
C7_Witness ==
  \E p \in Procs :
    /\ ~solo /\ MkReturned(p) /\ mkPre[p] = "ENOENT" /\ mkRet[p] = Nil
    /\ mkCall[p].fn = "MkdirAll"
    /\ MkTarget(p) \notin mkMade[p]
    /\ \E i \in 1..Len(mkOps[p]) : mkOps[p][i] = <<"mkdir", MkTarget(p)>>

----------------------------------------------------------------------------
(* Properties of the retrying calls *)

\* the shape of the retry loop, for a budget n: at most n attempts; the
\* counter is the budget less the failed attempts; while the call runs every
\* attempt so far has failed; nil is returned by the first successful
\* attempt, which is the last one made; an error is returned only after n
\* failed attempts, and it is the error of the last of them
BoundedRetry(n) ==
  /\ rtTries <= n
  /\ attempt = n - rtFails
  /\ e = rtLast
  /\ rtRet = Pending => rtFails = rtTries /\ attempt > 0
  /\ rtRet = Nil => rtLast = Nil /\ rtFails = rtTries - 1
  /\ rtRet \notin {Pending, Nil} => rtTries = n /\ rtFails = n /\ rtRet = rtLast

\* C1: Remove runs os.RemoveAll at most RemoveAttempts times; it returns nil
\* at its first successful attempt and makes no other; each failed attempt
\* takes one off the counter; after RemoveAttempts failures it returns the
\* error of the last attempt.
C1_RemoveBoundedRetry == rtCall.fn = "Remove" => BoundedRetry(RemoveAttempts)

\* Remove returned an error, the last attempt's, which is not the first's
C1_Witness ==
  /\ rtCall.fn = "Remove"
  /\ rtRet \notin {Pending, Nil}
  /\ rtTries = RemoveAttempts
  /\ rtFirst # rtLast

\* the parent directory of newpath was missing when MV was called
DestParentMissing ==
  /\ Len(Comps(rtCall.newpath)) >= 2
  /\ Lookup(rtSnap, Parent(Comps(rtCall.newpath)), FALSE) = "ENOENT"

\* C2: MV has the retry shape of Remove, with os.Rename and MvAttempts; and
\* when the parent of newpath is missing every attempt fails and the
\* filesystem stays as it was: MV creates no directory.
C2_MVBoundedRetry ==
  rtCall.fn = "MV"
    => /\ BoundedRetry(MvAttempts)
       /\ DestParentMissing => fs = rtSnap /\ rtFails = rtTries /\ rtRet # Nil

\* MV of an existing path to a place whose parent is missing returned the
\* error, after MvAttempts attempts
C2_Witness ==
  /\ rtCall.fn = "MV"
  /\ DestParentMissing
  /\ StatKind(rtSnap, rtCall.path) \in {"file", "dir"}
  /\ rtRet \notin {Pending, Nil}
  /\ rtTries = MvAttempts

\* C3: when Remove returns nil the path and all below it are gone, and
\* IsExists says (false, nil); on a path that was absent Remove returns nil
\* at its first attempt and the filesystem is as it was.
C3_RemovedIsAbsent ==
  /\ (rtCall.fn = "Remove" /\ rtRet = Nil)
       => /\ IsExists(fs, rtCall.path) = [ok |-> FALSE, e |-> Nil]
          /\ \A r \in Paths : IsPrefix(Comps(rtCall.path), r) => fs[r] = None
  /\ (rtCall.fn = "Remove" /\ StatKind(rtSnap, rtCall.path) = "ENOENT")
       => /\ fs = rtSnap
          /\ rtTries <= 1
          /\ rtTries = 1 => rtRet = Nil

\* Remove returned nil for a directory that was not empty, after at least
\* one attempt that failed
C3_Witness ==
  /\ rtCall.fn = "Remove"
  /\ rtRet = Nil
  /\ rtFails >= 1
  /\ rtSnap[Comps(rtCall.path)].kind = "dir"
  /\ Below(rtSnap, Comps(rtCall.path)) # {}

\* Remove returned nil, at its first attempt, for a path that was absent
C3_WitnessAbsent ==
  /\ rtCall.fn = "Remove"
  /\ rtRet = Nil
  /\ rtTries = 1
  /\ StatKind(rtSnap, rtCall.path) = "ENOENT"

----------------------------------------------------------------------------
(* Properties of the copy calls *)

CpSource == Comps(cpCall.source)

CpDest == Comps(cpCall.dest)

\* the call in progress has returned
CpReturned(fn) == cpCall.fn = fn /\ cpRet # Pending

\* the place in the destination of the source path r
DestOf(r) == CpDest \o SubSeq(r, Len(CpSource) + 1, Len(r))

\* the source path whose place in the destination is d
SourceOf(d) == CpSource \o SubSeq(d, Len(CpDest) + 1, Len(d))

\* neither of source and destination is the other or lies inside it
Apart == ~IsPrefix(CpSource, CpDest) /\ ~IsPrefix(CpDest, CpSource)

\* C8: CopyFile returns an error whenever one of its operations fails (the
\* open, the create, the streaming of the bytes, the chmod), and when it
\* returns nil the destination is a file holding the bytes of the source.
C8_CopyFileStrict ==
  CpReturned("CopyFile")
    => /\ cpFailed # {} => cpRet # Nil
       /\ cpRet = Nil => /\ Node(fs, CpDest).kind = "file"
                         /\ Node(fs, CpDest).data = Node(cpSnap, CpSource).data

Tried == {cpTried[i] : i \in 1..Len(cpTried)}

\* the entry r of the source is, in the destination, what it is in the
\* source: a file with the same bytes and mode, or a directory whose own
\* entries were all listed
Copied(r) ==
  IF Node(fs, r).kind = "file"
  THEN /\ Node(fs, DestOf(r)).kind = "file"
       /\ Node(fs, DestOf(r)).data = Node(fs, r).data
       /\ Node(fs, DestOf(r)).mode = Node(fs, r).mode
  ELSE /\ Node(fs, r).kind = "dir"
       /\ Node(fs, DestOf(r)).kind = "dir"
       /\ r \in cpListed

\* C9: when PathCopyDir has returned, every entry of every directory it
\* listed was gone to, whatever failed at the entries before it, and every
\* entry at which no operation failed is copied.
C9_BestEffortWalk ==
  CpReturned("PathCopyDir")
    => /\ \A d \in cpListed : \A x \in Children(fs, d) : Append(d, x) \in Tried
       /\ \A r \in Tried \ cpFailed : Copied(r)

\* a walk in which an entry failed, the failure was printed, and an entry
\* of the same directory that came after it was copied
C9_Witness ==
  /\ CpReturned("PathCopyDir")
  /\ stdout # <<>>
  /\ \E i, j \in 1..Len(cpTried) :
       /\ i < j
       /\ Parent(cpTried[i]) = Parent(cpTried[j])
       /\ cpTried[i] \in cpFailed
       /\ cpTried[j] \notin cpFailed
       /\ Copied(cpTried[j])

\* the nodes of the tree at q, q included
Under(f, q) == {r \in Paths : IsPrefix(q, r) /\ f[r].kind # "none"}

\* C10, as claimed: when no operation fails, the tree at dst is exactly the
\* tree at src, files with the same bytes and mode, directories with the
\* mode of their source directory, and src is as it was.
C10_ExactCopy ==
  (CpReturned("PathCopyDir") /\ cpFailed = {})
    => /\ \A r \in Under(cpSnap, CpSource) : Node(fs, DestOf(r)) = cpSnap[r]
       /\ \A d \in Under(fs, CpDest) : Node(cpSnap, SourceOf(d)).kind # "none"
       /\ \A r \in Paths : IsPrefix(CpSource, r) => fs[r] = cpSnap[r]

\* C10, amended: when no operation fails and src and dst are apart, every
\* file of src is in dst with the same bytes and mode; every directory of
\* src is a directory in dst, with the mode it had if it existed and else
\* the mode of its source directory less the umask bits; what dst held that
\* src has no entry for is still there; and src is as it was.
C10_CopiesTree ==
  (CpReturned("PathCopyDir") /\ cpFailed = {} /\ Apart)
    => /\ \A r \in Under(cpSnap, CpSource) :
            IF cpSnap[r].kind = "file"
            THEN Node(fs, DestOf(r)) = cpSnap[r]
            ELSE Node(fs, DestOf(r)) =
                   Dir(IF Node(cpSnap, DestOf(r)).kind = "dir"
                       THEN Node(cpSnap, DestOf(r)).mode
                       ELSE cpSnap[r].mode \ umask)
       /\ \A d \in Under(cpSnap, CpDest) :
            Node(cpSnap, SourceOf(d)).kind = "none" => fs[d] = cpSnap[d]
       /\ \A r \in Paths : IsPrefix(CpSource, r) => fs[r] = cpSnap[r]

\* a copy without failure into a directory that existed with another mode
\* and a file of its own, with a nested directory created under a umask
\* that clears a bit of its source's mode, and a file copied into it
C10_Witness ==
  /\ CpReturned("PathCopyDir") /\ cpFailed = {} /\ Apart
  /\ cpSnap[CpDest].kind = "dir" /\ cpSnap[CpDest].mode # cpSnap[CpSource].mode
  /\ \E d \in Under(cpSnap, CpDest) : Node(cpSnap, SourceOf(d)).kind = "none"
  /\ \E r \in Under(cpSnap, CpSource) :
       /\ cpSnap[r].kind = "dir"
       /\ Node(cpSnap, DestOf(r)).kind = "none"
       /\ cpSnap[r].mode \cap umask # {}
       /\ \E x \in Names : Node(cpSnap, Append(r, x)).kind = "file"
                           /\ Node(fs, DestOf(Append(r, x))).kind = "file"

----------------------------------------------------------------------------
(* Properties of the MD5 calls *)

\* the call fn of caller p has returned (or panicked) and the caller has
\* not called again
MdReturned(p, fn) == mdCall[p].fn = fn /\ mdCall[p].pc = "done"

\* the file the Do call of caller p was given
MdFile(p) == Node(fs, Comps(mdCall[p].path))

\* C11: after every Do that returns nil, the buffer of the record is not
\* nil and its length is Sz, which is the length of the file; also when the
\* read failed after the size query succeeded.
C11_BufferHoldsFile ==
  \A p \in Procs :
    (MdReturned(p, "Do") /\ mdRet[p] = Nil)
      => /\ mdRec[p].B # NilBuf
         /\ Len(bufs[mdRec[p].B]) = mdRec[p].Sz
         /\ mdRec[p].Sz = Len(MdFile(p).data)

\* C12: when the size query succeeds and the read fails, Do returns nil and
\* the digest of the record is the zero digest, whatever the record held
\* at the call.
C12_ReadFailureZeroDigest ==
  \A p \in Procs :
    (MdReturned(p, "Do") /\ mdLog[p].readErr)
      => mdRet[p] = Nil /\ mdRec[p].Sum = ZeroSum

\* C13: Release hands the buffer of the record to the pool once and leaves
\* the record with no buffer; on a record that has no buffer (released
\* before, or never used) it does not panic and hands nothing to the pool.
C13_ReleaseOnce ==
  \A p \in Procs :
    MdReturned(p, "Release")
      => /\ mdRet[p] = Nil
         /\ mdRec[p].B = NilBuf
         /\ mdLog[p].put = IF mdLog[p].prev.B # NilBuf THEN <<mdLog[p].prev.B>> ELSE <<>>

\* a record owns the buffer it refers to, until its Release has handed the
\* buffer to the pool (md5.go:20)
Owns(p) ==
  /\ mdRec[p].B # NilBuf
  /\ ~(mdCall[p].fn = "Release" /\ mdCall[p].pc = "clear")

\* no buffer has two owners, and no owned buffer is free in the pool
MdExclusive ==
  /\ \A p, q \in Procs : (p # q /\ Owns(p) /\ Owns(q)) => mdRec[p].B # mdRec[q].B
  /\ \A p \in Procs : Owns(p) => mdRec[p].B \notin pool

\* a Do on a record that has a buffer takes none from the pool and keeps its
\* own
MdReuse ==
  \A p \in Procs :
    (mdCall[p].fn = "Do" /\ mdLog[p].prev.B # NilBuf)
      => mdLog[p].got = {} /\ mdRec[p].B = mdLog[p].prev.B

\* after a Do that returned nil the buffer holds the bytes of the file of
\* that call, and no other byte
MdLatestBytes ==
  \A p \in Procs :
    (MdReturned(p, "Do") /\ mdRet[p] = Nil)
      => mdRec[p].B # NilBuf /\ bufs[mdRec[p].B] = MdFile(p).data

\* C19: over the interleavings of the Do and Release calls of several
\* callers, each on its own record, a buffer has at most one owner and is
\* never owned and free at once; a Do on a record with a buffer reuses it;
\* and after a Do that returned nil the buffer holds exactly the bytes of
\* the latest file.
C19_ExclusiveBufferLatestBytes == MdExclusive /\ MdReuse /\ MdLatestBytes

----------------------------------------------------------------------------
(* Properties of Rename, EnsureMany, AbsentMany and Clear *)

\* the call fn has returned
BmReturned(fn) == bmCall.fn = fn /\ bmPc = "done"

\* C14: Rename ensures the directory of newpath and then makes one
\* os.Rename, without retry; when the ensuring fails Rename returns that
\* error and makes no os.Rename; so Rename returns nil only when the
\* os.Rename succeeded.
C14_RenamePropagatesEnsure ==
  BmReturned("Rename")
    => /\ mkCall[1].path = FilepathDir(bmCall.args[2])
       /\ mkRet[1] # Nil => bmRet = mkRet[1] /\ bmLog = <<>>
       /\ mkRet[1] = Nil => Len(bmLog) = 1 /\ bmRet = bmLog[1].err
       /\ bmRet = Nil => bmLog # <<>> /\ bmLog[1].err = Nil

\* the canonical path of the i-th pair of the EnsureMany call
PairPath(i) == Comps(bmCall.args[i][1])

\* C15: EnsureMany goes over the pairs in order and stops at the first pair
\* whose stat or creation fails: that error is returned and no later pair
\* is looked at or created; the pairs before it keep their effect; nil is
\* returned only when no pair failed, all of them having been gone over.
C15_EnsureManyStopsAtFirstFailure ==
  BmReturned("EnsureMany")
    => LET n == Len(bmLog)
       IN  /\ n <= Len(bmCall.args)
           /\ \A i \in 1..n : bmLog[i].item = bmCall.args[i][1]
           /\ \A i \in 1..(n - 1) : bmLog[i].err = Nil
           /\ IF n > 0 /\ bmLog[n].err # Nil
              THEN bmRet = bmLog[n].err
              ELSE bmRet = Nil /\ n = Len(bmCall.args)
           /\ \A i \in 1..n :
                bmLog[i].err = Nil
                  => /\ StatKind(fs, bmCall.args[i][1]) \in {"dir", "file"}
                     /\ StatKind(bmSnap, bmCall.args[i][1]) = "ENOENT"
                          => StatKind(fs, bmCall.args[i][1]) = "dir"
           /\ \A r \in Paths :
                fs[r] # bmSnap[r]
                  => /\ bmSnap[r].kind = "none" /\ fs[r].kind = "dir"
                     /\ \E i \in 1..n : IsPrefix(r, PairPath(i))

\* EnsureMany returned the error of its second pair, the first pair having
\* made a directory that is still there and the third pair's path being
\* absent as it was
C15_Witness ==
  /\ BmReturned("EnsureMany")
  /\ Len(bmLog) = 2 /\ Len(bmCall.args) = 3
  /\ bmRet # Nil
  /\ bmSnap[PairPath(1)].kind = "none" /\ fs[PairPath(1)].kind = "dir"
  /\ StatKind(fs, bmCall.args[3][1]) = "ENOENT"

\* the indices of the paths whose removal failed
FailedAt == {i \in 1..Len(bmLog) : bmLog[i].err # Nil}

\* C16: AbsentMany calls Remove on every path of its input, in order,
\* whatever the earlier ones gave; it returns nil exactly when every Remove
\* returned nil, and else the error of the last path whose Remove failed.
C16_AbsentManyAttemptsAll ==
  BmReturned("AbsentMany")
    => /\ Len(bmLog) = Len(bmCall.args)
       /\ \A i \in 1..Len(bmLog) : bmLog[i].item = bmCall.args[i]
       /\ bmRet = Nil <=> FailedAt = {}
       /\ \A i \in FailedAt : (\A j \in FailedAt : j <= i) => bmRet = bmLog[i].err
       /\ \A i \in 1..Len(bmLog) :
            (bmLog[i].err = Nil /\ \A j \in (i + 1)..Len(bmLog) : bmLog[j].err = Nil)
              => StatKind(fs, bmCall.args[i]) = "ENOENT"

\* AbsentMany returned the error of a path that is not its last: the
\* removal of that path failed, and a later path, which existed, was removed
C16_Witness ==
  /\ BmReturned("AbsentMany")
  /\ \E i, j \in 1..Len(bmLog) :
       /\ i < j
       /\ bmLog[i].err # Nil
       /\ bmLog[j].err = Nil
       /\ FailedAt = {i}
       /\ bmRet = bmLog[i].err
       /\ StatKind(bmSnap, bmCall.args[j]) \in {"dir", "file"}
       /\ StatKind(fs, bmCall.args[j]) = "ENOENT"

\* the path of the Clear call
ClearPath == bmCall.args[1]

\* C20: Clear on a directory calls Remove on every direct child and never
\* removes the directory; when it returns nil the directory is there and
\* empty, so the failed removal of any child gives an error; on an absent
\* path it returns nil and the filesystem is as it was.
C20_ClearEmpties ==
  bmCall.fn = "Clear"
    => /\ StatKind(bmSnap, ClearPath) = "dir" => StatKind(fs, ClearPath) = "dir"
       /\ (BmReturned("Clear") /\ StatKind(bmSnap, ClearPath) = "dir" /\ bmRet.op # "readdir")
            => {bmLog[i].item : i \in 1..Len(bmLog)}
                 = {FilepathJoin(ClearPath, x) : x \in Children(bmSnap, Comps(ClearPath))}
       /\ (BmReturned("Clear") /\ StatKind(bmSnap, ClearPath) = "dir" /\ bmRet = Nil)
            => Children(fs, Comps(ClearPath)) = {}
       /\ (BmReturned("Clear") /\ StatKind(bmSnap, ClearPath) = "ENOENT")
            => bmRet = Nil /\ fs = bmSnap

----------------------------------------------------------------------------
(* The order of the steps of MkdirAll *)

\* the i-th os.Mkdir or os.Chmod of the call of caller p
Op(p, i) == mkOps[p][i]

\* C17: in a MkdirAll call a directory is made only when its parent is
\* there, the parents first; every directory the call makes is chmod-ed
\* right after its os.Mkdir, so that when the call returns nil it has
\* exactly the requested mode; and no directory is chmod-ed that the call
\* did not make, be it there before or made meanwhile by another caller.
C17_MkdirThenChmod ==
  \A p \in Procs :
    LET n == Len(mkOps[p])
    IN  /\ \A q \in mkMade[p] : Node(fs, Parent(q)).kind = "dir"
        /\ \A i, j \in 1..n :
             (i < j /\ Op(p, i)[1] = "mkdir" /\ Op(p, j)[1] = "mkdir")
               => IsPrefix(Op(p, i)[2], Op(p, j)[2]) /\ Op(p, i)[2] # Op(p, j)[2]
        /\ \A i \in 1..n :
             Op(p, i)[1] = "chmod"
               => /\ i > 1
                  /\ Op(p, i - 1) = <<"mkdir", Op(p, i)[2]>>
                  /\ Op(p, i)[2] \in mkMade[p]
        /\ \A i \in 1..n :
             (Op(p, i)[1] = "mkdir" /\ Op(p, i)[2] \in mkMade[p]
                /\ (i < n \/ (MkReturned(p) /\ mkRet[p] = Nil)))
               => i < n /\ Op(p, i + 1) = <<"chmod", Op(p, i)[2]>>
        /\ (MkReturned(p) /\ mkRet[p] = Nil)
             => \A q \in mkMade[p] : fs[q] = Dir(mkCall[p].perm)

\* a call returned nil that made a directory and chmod-ed it, and whose
\* os.Mkdir of another one failed, that one having been made by another
\* caller: it was not chmod-ed and has a mode other than the requested one
C17_Witness ==
  \E p \in Procs :
    /\ ~solo /\ MkReturned(p) /\ mkRet[p] = Nil
    /\ mkMade[p] # {}
    /\ \E i \in 1..Len(mkOps[p]) :
         /\ Op(p, i)[1] = "mkdir"
         /\ Op(p, i)[2] \notin mkMade[p]
         /\ fs[Op(p, i)[2]].kind = "dir"
         /\ fs[Op(p, i)[2]].mode # mkCall[p].perm

----------------------------------------------------------------------------
(* The reports of PathCopyDir *)

\* an error about the entry r of the source, or about its place in the
\* destination, was printed
Reported(r) ==
  \E i \in 1..Len(stdout) : Comps(stdout[i].path) \in {r, DestOf(r)}

\* C18: when the walk of PathCopyDir is over, every entry at which an
\* operation failed (the open, the create, the streaming of the bytes, the
\* chmod, or the copy of a subdirectory) has an error of its own printed.
C18_EveryFailureReported ==
  CpReturned("PathCopyDir") => \A r \in Tried \cap cpFailed : Reported(r)

====
